---------------------------- MODULE Spec2Model ----------------------------
(***************************************************************************)
(* A model of imagewty-tool: the checksum engine (checksum.c), the         *)
(* manifest codec (config_file.c), the binary header codec                 *)
(* (img_header.c), extraction (img_extract.c) and repacking                *)
(* (img_repack.c).                                                         *)
(*                                                                         *)
(* Representation.                                                         *)
(*  - A uint32_t / uint64_t value v is the pair <<lo, hi>> with            *)
(*    v = hi * 65536 + lo and 0 <= lo < 65536.  A uint32_t has             *)
(*    hi < 65536; casting to uint32_t is U32.  (TLC's integers stop at     *)
(*    2^31 - 1, so a 32-bit unsigned value cannot be one TLC integer.)     *)
(*  - A byte is an integer 0..255; a C string is the sequence of its       *)
(*    bytes without the terminating NUL.                                   *)
(*  - A regular file of the dump directory is a record                     *)
(*    [data, r, w]: its bytes and whether fopen succeeds for reading       *)
(*    and for writing.  NoFile stands for a name that does not exist.      *)
(***************************************************************************)
EXTENDS Integers, Sequences, FiniteSets, TLC

VARIABLES
    pc,      \* position of the running operation
    dir,     \* dump directory: file name -> file or NoFile
    cfg,     \* the dump directory's image.cfg: NoFile or its lines
    image,   \* the source container read by extract_image
    out,     \* the destination container written by repack_image
    hdr,     \* in-memory ImageWTYHeader of the running operation
    files,   \* in-memory ImageWTYFileHeader array of the running operation
    scan,    \* state of check_vfiles_common: readdir order, index, reports
    arg,     \* arguments the running operation was called with
    ret,     \* value returned by the finished operation
    env      \* what the operating system grants: directories, memory

vars == <<pc, dir, cfg, image, out, hdr, files, scan, arg, ret, env>>

\* a name that does not exist in the file system
NoFile == [exists |-> FALSE]
\* no value
None == [none |-> TRUE]

---------------------------------------------------------------------------
(* Bounds of the model.                                                    *)

\* longest file content drawn for compute_checksum, in bytes
MaxLen == 6
\* the read buffer of compute_checksum, counted in 4-byte words
BufWords == 1
\* number of scans of one dump directory that are followed
MaxRuns == 2
\* number of file entries of a header drawn for the manifest codec
MaxEntries == 2
\* number of permission faults (unreadable, unwritable) in a dump directory
MaxFaults == 1

\* the number of array elements calloc grants when memory is there
CallocLimit == MaxEntries

\* the dump directory exists and is a directory, memory is there
EnvIdle == [dumpdir |-> "dir", mem |-> CallocLimit]

---------------------------------------------------------------------------
(* Unsigned arithmetic on <<lo, hi>> pairs.                                *)

Half == 256 * 256

Norm(lo, hi) == <<lo % Half, hi + (lo \div Half)>>

W(n) == Norm(n, 0)

WAdd(a, b) == Norm(a[1] + b[1], a[2] + b[2])

WLess(a, b) == a[2] < b[2] \/ (a[2] = b[2] /\ a[1] < b[1])

WLeq(a, b) == a = b \/ WLess(a, b)

\* a - b for a >= b
WSub(a, b) ==
    IF a[1] >= b[1] THEN <<a[1] - b[1], a[2] - b[2]>>
    ELSE <<a[1] + Half - b[1], a[2] - 1 - b[2]>>

\* the cast (uint32_t)a
U32(a) == <<a[1], a[2] % Half>>

\* x * y mod 2^16 for 0 <= x, y < 2^16, without leaving TLC's integers
MulLow(x, y) == (x * (y % 256) + ((x * (y \div 256)) % 256) * 256) % Half

\* x * y for 0 <= x, y < 2^16, as a pair
MulWide(x, y) ==
    LET t == x * (y \div 256)
    IN WAdd(W(x * (y % 256)), Norm((t % 256) * 256, t \div 256))

\* uint32_t multiplication: a * b mod 2^32
U32Mul(a, b) ==
    LET low == MulWide(a[1], b[1])
        cross == (MulLow(a[1], b[2]) + MulLow(a[2], b[1])) % Half
    IN U32(<<low[1], low[2] + cross>>)

\* uint32_t addition: a + b mod 2^32
U32Add(a, b) == U32(WAdd(a, b))

WDiv16(a) == <<(a[2] % 16) * 4096 + (a[1] \div 16), a[2] \div 16>>

WMul16(a) == Norm(a[1] * 16, a[2] * 16)

WMod16(a) == a[1] % 16

Zero32 == <<0, 0>>

---------------------------------------------------------------------------
(* Bytes and strings.                                                      *)

\* the printable characters in the order of their codes: 32..91, 93..95 and
\* 97..126
Printable ==
    <<" !\"#$%&'()*+,-./0123456789:;<=>?@ABCDEFGHIJKLMNOPQRSTUVWXYZ[",
      "]^_", "abcdefghijklmnopqrstuvwxyz{|}~">>

\* the position of a one-character string in a string, or 0
Index(str, c) ==
    LET at == {i \in 1..Len(str) : SubSeq(str, i, i) = c}
    IN IF at = {} THEN 0 ELSE CHOOSE i \in at : TRUE

\* the character code of a one-character string (printable ASCII)
Ascii(c) ==
    IF Index(Printable[1], c) # 0 THEN 31 + Index(Printable[1], c)
    ELSE IF Index(Printable[2], c) # 0 THEN 92 + Index(Printable[2], c)
    ELSE 96 + Index(Printable[3], c)

\* the bytes of a string literal
Str(s) == [i \in 1..Len(s) |-> Ascii(SubSeq(s, i, i))]

\* the four bytes of a uint32_t in little-endian order
LE32(v) == <<v[1] % 256, v[1] \div 256, v[2] % 256, v[2] \div 256>>

\* the uint32_t whose little-endian bytes are b0 b1 b2 b3
Word(b0, b1, b2, b3) == <<b0 + 256 * b1, b2 + 256 * b3>>

File(data, r, w) == [exists |-> TRUE, data |-> data, r |-> r, w |-> w]

Readable(f) == f.exists /\ f.r

RECURSIVE SeqsUpTo(_, _)
SeqsUpTo(S, n) ==
    IF n = 0 THEN {<<>>}
    ELSE LET shorter == SeqsUpTo(S, n - 1)
         IN shorter \cup {Append(s, x) : s \in {t \in shorter : Len(t) = n - 1}, x \in S}

---------------------------------------------------------------------------
(* checksum.c: compute_checksum.                                           *)

BufSize == 4 * BufWords

\* the for loop over the full words of buf[0..n): sum += word
RECURSIVE SumFullWords(_, _, _)
SumFullWords(buf, i, sum) ==
    IF i + 4 <= Len(buf)
    THEN SumFullWords(buf, i + 4,
             U32Add(sum, Word(buf[i + 1], buf[i + 2], buf[i + 3], buf[i + 4])))
    ELSE sum

\* the remaining n % 4 bytes of buf, copied into a zeroed 4-byte array
LastWord(buf) ==
    LET n == Len(buf)
        rem == n % 4
        last == [k \in 1..4 |-> IF k <= rem THEN buf[n - rem + k] ELSE 0]
    IN Word(last[1], last[2], last[3], last[4])

\* mutant of SumChunk: the trailing n % 4 bytes of a chunk are dropped
SumChunkNoRemainder(buf, sum) == U32(SumFullWords(buf, 0, sum))

\* one iteration of the while loop: the chunk fread returned
SumChunk(buf, sum) ==
    LET s1 == SumFullWords(buf, 0, sum)
        s2 == IF Len(buf) % 4 # 0 THEN U32Add(s1, LastWord(buf)) ELSE s1
    IN U32(s2)

\* fread(buf, 1, sizeof(buf), f) on a regular file at position pos
Fread(data, pos, want) ==
    LET n == IF Len(data) - pos < want THEN Len(data) - pos ELSE want
    IN SubSeq(data, pos + 1, pos + n)

RECURSIVE SumLoop(_, _, _)
SumLoop(data, pos, sum) ==
    LET buf == Fread(data, pos, BufSize)
    IN IF Len(buf) > 0 THEN SumLoop(data, pos + Len(buf), SumChunk(buf, sum))
       ELSE sum

\* compute_checksum(dump_folder/name): 0 when the file cannot be opened
compute_checksum(d, name) ==
    IF name \in DOMAIN d /\ Readable(d[name])
    THEN SumLoop(d[name].data, 0, Zero32)
    ELSE Zero32

---------------------------------------------------------------------------
(* checksum.c: check_vfiles_common, one directory entry at a time.         *)

N_a == Str("a.fex")
N_Va == Str("Va.fex")
N_VVa == Str("VVa.fex")
N_Vvbmeta == Str("Vvbmeta.fex")
N_Vvbmeta_system == Str("Vvbmeta_system.fex")
N_Vvbmeta_vendor == Str("Vvbmeta_vendor.fex")

\* the file names a dump directory may hold
Names == {N_a, N_Va, N_VVa, N_Vvbmeta, N_Vvbmeta_system, N_Vvbmeta_vendor}

\* strstr(name, sub) != NULL
StrStr(name, sub) ==
    \E i \in 1..(Len(name) - Len(sub) + 1) : SubSeq(name, i, i + Len(sub) - 1) = sub

\* name[0] == 'V' && strstr(name, ".fex")
IsVfex(name) ==
    /\ Len(name) > 0
    /\ name[1] = Ascii("V")
    /\ StrStr(name, Str(".fex"))

\* mutant of IsExempt: only Vvbmeta.fex is skipped
IsExemptFirst(name) == name = N_Vvbmeta

\* the known vbmeta variants
IsExempt(name) ==
    name = N_Vvbmeta \/ name = N_Vvbmeta_system \/ name = N_Vvbmeta_vendor

\* mutant of AfterEntry: an entry that cannot be read or written ends the scan
AfterEntryAbort(outcome) ==
    IF outcome \in {"cannot_open", "short_read", "cannot_write"} THEN "closed"
    ELSE "readdir"

\* what the loop does after an entry was handled: every path of the body
\* ends in `continue` or falls to the end of the body
AfterEntry(outcome) == "readdir"

\* mutant of MayRewrite: a mismatch is repaired in either mode
MayRewriteAlways(update) == TRUE

\* if (update): whether a mismatch is repaired
MayRewrite(update) == update

\* the outcomes after which the body prints an error and continues
Failures == {"cannot_open", "short_read", "cannot_write", "FAIL"}

\* mutant of RewriteVfile: the side-file is overwritten in place, not truncated
RewriteVfileInPlace(d, name, actual) ==
    [d EXCEPT ![name].data = LE32(actual) \o SubSeq(@, 5, Len(@))]

\* fopen(vfile_path, "wb") and fwrite of the four bytes of actual
RewriteVfile(d, name, actual) == [d EXCEPT ![name].data = LE32(actual)]

\* the body of the while loop for the entry `name`
ScanStep(d, name, update) ==
    LET vf == d[name]
        quiet(o) == [dir |-> d, outcome |-> o]
    IN IF ~IsVfex(name) THEN quiet("skipped")
       ELSE IF IsExempt(name) THEN quiet("exempt")
       ELSE IF ~Readable(vf) THEN quiet("cannot_open")
       ELSE IF Len(vf.data) < 4 THEN quiet("short_read")
       ELSE LET expected == Word(vf.data[1], vf.data[2], vf.data[3], vf.data[4])
                realname == Tail(name)
                actual == compute_checksum(d, realname)
            IN IF actual = expected THEN quiet("OK")
               ELSE IF MayRewrite(update)
                    THEN IF ~vf.w THEN quiet("cannot_write")
                         ELSE [dir |-> RewriteVfile(d, name, actual), outcome |-> "FIX"]
                    ELSE quiet("FAIL")

\* the entries readdir will return: the names present at opendir
Present(d) == {n \in DOMAIN d : d[n].exists}

\* count, report: how often and with what result each entry was handled in
\* the current scan; modes: the update flags of the finished scans;
\* failed, late: whether an entry of this scan failed, and the entries
\* handled after that
ScanIdle ==
    [update |-> FALSE, todo |-> {}, count |-> [n \in Names |-> 0],
     report |-> [n \in Names |-> "none"], modes |-> <<>>, loop |-> "closed",
     failed |-> FALSE, late |-> {}, resume |-> "idle"]

\* check_vfiles_common(dump_folder, update) up to opendir; the caller goes
\* on at `resume` when the scan returns
OpenDir(update, resume) ==
    IF env.dumpdir = "dir"
    THEN [ScanIdle EXCEPT !.update = update, !.todo = Present(dir),
                          !.modes = scan.modes, !.loop = "readdir",
                          !.resume = resume]
    ELSE [ScanIdle EXCEPT !.update = update, !.modes = scan.modes,
                          !.resume = resume]

\* a scan called on its own
StartScan(update) ==
    /\ pc = "idle"
    /\ Len(scan.modes) < MaxRuns
    /\ pc' = "scan"
    /\ scan' = OpenDir(update, "idle")
    /\ UNCHANGED <<dir, cfg, image, out, hdr, files, arg, ret, env>>

\* verify_vfiles_checksums(dump_folder)
VerifyVfiles == StartScan(FALSE)

\* update_vfiles_if_needed(dump_folder)
UpdateVfiles == StartScan(TRUE)

\* one iteration of while ((entry = readdir(dir)) != NULL); readdir returns
\* the entries in an order the file system chooses
ScanEntry ==
    /\ pc = "scan"
    /\ scan.loop = "readdir"
    /\ \E name \in scan.todo :
        LET step == ScanStep(dir, name, scan.update)
        IN /\ dir' = step.dir
           /\ scan' = [scan EXCEPT !.todo = @ \ {name},
                                   !.count[name] = @ + 1,
                                   !.report[name] = step.outcome,
                                   !.loop = AfterEntry(step.outcome),
                                   !.failed = @ \/ step.outcome \in Failures,
                                   !.late = IF scan.failed THEN @ \cup {name} ELSE @]
    /\ UNCHANGED <<pc, cfg, image, out, hdr, files, arg, ret, env>>

\* readdir returned NULL (or the loop was left): closedir, return
FinishScan ==
    /\ pc = "scan"
    /\ scan.todo = {} \/ scan.loop # "readdir"
    /\ pc' = scan.resume
    /\ scan' = [scan EXCEPT !.modes = Append(@, scan.update), !.loop = "closed"]
    /\ UNCHANGED <<dir, cfg, image, out, hdr, files, arg, ret, env>>

---------------------------------------------------------------------------
(* img_header.h: the in-memory structures.                                 *)

\* ImageWTYHeader after memset(hdr, 0, sizeof(*hdr))
ZeroHeader ==
    [magic |-> <<>>, header_version |-> Zero32, header_size |-> Zero32,
     base_ram |-> Zero32, format_version |-> Zero32, total_image_size |-> Zero32,
     header_size_aligned |-> Zero32, file_header_length |-> Zero32,
     usb_product_id |-> Zero32, usb_vendor_id |-> Zero32, hardware_id |-> Zero32,
     firmware_id |-> Zero32, unknown1 |-> Zero32, unknown2 |-> Zero32,
     num_files |-> Zero32, unknown3 |-> Zero32]

\* ImageWTYFileHeader after calloc / memset(fh, 0, sizeof(*fh))
ZeroFileHeader ==
    [filename_length |-> Zero32, header_size |-> Zero32, maintype |-> <<>>,
     subtype |-> <<>>, unknown0 |-> Zero32, filename |-> <<>>,
     stored_length |-> Zero32, pad1 |-> Zero32, original_length |-> Zero32,
     pad2 |-> Zero32, offset |-> Zero32]

---------------------------------------------------------------------------
(* config_file.c: the manifest codec.  A manifest is the sequence of its   *)
(* lines; a line is the sequence of its bytes without the newline.         *)

\* the literal pieces of write_image_config's format strings
Fmt ==
    [eq |-> Str("="), semi |-> Str(";"), eqquote |-> Str("=\""),
     quotesemi |-> Str("\";"), image_cfg |-> Str("[IMAGE_CFG]"),
     filelist |-> Str("[FILELIST]"), file |-> Str("file_"),
     open |-> Str(" {"), close |-> Str("}"), magic |-> Str("magic"), imagewty |-> Str("IMAGEWTY"),
     number_of_files |-> Str("number_of_files")]

Take(str, n) == SubSeq(str, 1, IF Len(str) < n THEN Len(str) ELSE n)

\* isspace() in the C locale
IsSpace(c) == c \in {32, 9, 10, 11, 12, 13}

\* the number of white-space bytes a string begins with
LeadingSpace(str) ==
    Cardinality({i \in 1..Len(str) : \A j \in 1..i : IsSpace(str[j])})

\* while (end > s && isspace(*end)) *end-- = '\0'
DropTrailingSpace(str) ==
    SubSeq(str, 1,
           Cardinality({i \in 1..Len(str) :
                           i = 1 \/ \E j \in i..Len(str) : ~IsSpace(str[j])}))

\* strip_whitespace
strip_whitespace(str) ==
    DropTrailingSpace(SubSeq(str, LeadingSpace(str) + 1, Len(str)))

\* if (s[len - 1] == ';') s[--len] = '\0'
DropSemicolon(str) ==
    IF Len(str) > 0 /\ str[Len(str)] = Ascii(";")
    THEN SubSeq(str, 1, Len(str) - 1)
    ELSE str

\* if (len >= 2 && s[0] == '"' && s[len - 1] == '"') drop both
DropQuotes(str) ==
    IF Len(str) >= 2 /\ str[1] = Ascii("\"") /\ str[Len(str)] = Ascii("\"")
    THEN SubSeq(str, 2, Len(str) - 1)
    ELSE str

\* clean_cfg_string
clean_cfg_string(str) == DropQuotes(DropSemicolon(strip_whitespace(str)))

\* the value of a digit in the given base, or -1
DigitValue(c, base) ==
    LET v == IF c >= 48 /\ c <= 57 THEN c - 48
             ELSE IF c >= 97 /\ c <= 122 THEN c - 87
             ELSE IF c >= 65 /\ c <= 90 THEN c - 55
             ELSE 0 - 1
    IN IF v >= 0 /\ v < base THEN v ELSE 0 - 1

\* acc * base + digit on the four 16-bit limbs of an unsigned long (64 bits,
\* LP64); over: the product no longer fits
MulAdd(st, base, digit) ==
    LET t0 == st.v[1] * base + digit
        t1 == st.v[2] * base + t0 \div Half
        t2 == st.v[3] * base + t1 \div Half
        t3 == st.v[4] * base + t2 \div Half
    IN [v |-> <<t0 % Half, t1 % Half, t2 % Half, t3 % Half>>,
        over |-> st.over \/ t3 \div Half > 0]

RECURSIVE Digits(_, _, _, _)
Digits(str, i, base, st) ==
    IF i <= Len(str) /\ DigitValue(str[i], base) >= 0
    THEN Digits(str, i + 1, base, MulAdd(st, base, DigitValue(str[i], base)))
    ELSE st

\* strtoul: a sign at position d
HasSign(str, d) == d <= Len(str) /\ str[d] \in {Ascii("+"), Ascii("-")}

\* strtoul, base 16: 0x or 0X and a hexadecimal digit at position d
HasPrefix(str, d) ==
    /\ Len(str) >= d + 2
    /\ str[d] = Ascii("0")
    /\ str[d + 1] \in {Ascii("x"), Ascii("X")}
    /\ DigitValue(str[d + 2], 16) >= 0

\* strtoul: the digits from position d on
Magnitude(str, base, d) ==
    Digits(str, IF base = 16 /\ HasPrefix(str, d) THEN d + 2 ELSE d, base,
           [v |-> <<0, 0, 0, 0>>, over |-> FALSE])

\* (uint32_t) of strtoul's result: ULONG_MAX on overflow, negated after '-'
Unsigned32(r, neg) ==
    IF r.over THEN <<Half - 1, Half - 1>>
    ELSE IF neg THEN U32(WSub(<<0, Half>>, <<r.v[1], r.v[2]>>))
    ELSE <<r.v[1], r.v[2]>>

\* strtoul after ws bytes of white space
StrtoulAt(str, base, ws) ==
    Unsigned32(Magnitude(str, base, IF HasSign(str, ws + 1) THEN ws + 2 ELSE ws + 1),
               HasSign(str, ws + 1) /\ str[ws + 1] = Ascii("-"))

\* (uint32_t)strtoul(str, NULL, base)
strtoul32(str, base) == StrtoulAt(str, base, LeadingSpace(str))

\* parse_uint32
parse_uint32(str) ==
    strtoul32(str, IF Take(str, 2) = Str("0x") THEN 16 ELSE 10)

HexDigit(d) == IF d < 10 THEN 48 + d ELSE 55 + d

\* printf("%04X") of a 16-bit value
Hex4(n) ==
    <<HexDigit(n \div 4096), HexDigit((n \div 256) % 16),
      HexDigit((n \div 16) % 16), HexDigit(n % 16)>>

\* printf("0x%08X")
Hex8(v) == Str("0x") \o Hex4(v[2]) \o Hex4(v[1])

\* printf("%u") of a small number
RECURSIVE Dec(_)
Dec(n) == IF n < 10 THEN <<48 + n>> ELSE Dec(n \div 10) \o <<48 + (n % 10)>>

\* the position of the first c in str, or 0: strchr
StrChr(str, c) ==
    IF \E i \in 1..Len(str) : str[i] = c
    THEN CHOOSE i \in 1..Len(str) : str[i] = c /\ \A j \in 1..(i - 1) : str[j] # c
    ELSE 0

\* sizeof(line) in load_image_config
LineSize == 512

\* where fgets(line, sizeof(line), f) stops in what is left of a written
\* line: after a newline byte, or after sizeof(line) - 1 bytes
FgetsCut(l, nl) ==
    IF nl # 0 /\ nl <= LineSize - 1 THEN nl
    ELSE IF Len(l) > LineSize - 1 THEN LineSize - 1
    ELSE Len(l)

\* the pieces fgets delivers for one written line
RECURSIVE FgetsPieces(_)
FgetsPieces(l) ==
    IF FgetsCut(l, StrChr(l, 10)) = Len(l) THEN <<l>>
    ELSE <<SubSeq(l, 1, FgetsCut(l, StrChr(l, 10)))>>
         \o FgetsPieces(SubSeq(l, FgetsCut(l, StrChr(l, 10)) + 1, Len(l)))

\* all the lines fgets delivers for a text
RECURSIVE Fgets(_, _)
Fgets(text, i) ==
    IF i > Len(text) THEN <<>> ELSE FgetsPieces(text[i]) \o Fgets(text, i + 1)

\* hdr_uint_fields: key, field
HdrUIntFields ==
    << <<Str("header_version"), "header_version">>,
       <<Str("header_size"), "header_size">>,
       <<Str("base_ram"), "base_ram">>,
       <<Str("format_version"), "format_version">>,
       <<Str("total_image_size"), "total_image_size">>,
       <<Str("header_size_including_alignment"), "header_size_aligned">>,
       <<Str("file_header_length"), "file_header_length">>,
       <<Str("usb_product_id"), "usb_product_id">>,
       <<Str("usb_vendor_id"), "usb_vendor_id">>,
       <<Str("hardware_id"), "hardware_id">>,
       <<Str("firmware_id"), "firmware_id">>,
       <<Str("unknown_field_1"), "unknown1">>,
       <<Str("unknown_field_2"), "unknown2">>,
       <<Str("unknown_field_3"), "unknown3">> >>

\* hdr_str_fields: key, field, sizeof(field)
HdrStrFields == << <<Str("magic"), "magic", 9>> >>

\* file_uint_fields of load_image_config: key, field
FileUIntFields ==
    << <<Str("filename_length"), "filename_length">>,
       <<Str("header_size"), "header_size">>,
       <<Str("unknown0"), "unknown0">>,
       <<Str("stored_length"), "stored_length">>,
       <<Str("pad1"), "pad1">>,
       <<Str("original_length"), "original_length">>,
       <<Str("pad2"), "pad2">>,
       <<Str("offset"), "offset">> >>

\* file_str_fields of load_image_config: key, field, sizeof(field)
FileStrFields ==
    << <<Str("maintype"), "maintype", 9>>,
       <<Str("subtype"), "subtype", 17>>,
       <<Str("filename"), "filename", 257>> >>

\* the first entry of the table whose key is `key`, or 0: the strcmp loops
Lookup(table, key) ==
    IF \E i \in 1..Len(table) : table[i][1] = key
    THEN CHOOSE i \in 1..Len(table) :
            table[i][1] = key /\ \A j \in 1..(i - 1) : table[j][1] # key
    ELSE 0

\* snprintf(sf->field, sf->size, "%s", val) for entry si of a string table
SetStr(rec, strs, si, val) ==
    [rec EXCEPT ![strs[si][2]] = Take(val, strs[si][3] - 1)]

\* *uf->field = parse_uint32(val) for entry ui of a number table
SetUInt(rec, uints, ui, val) ==
    [rec EXCEPT ![uints[ui][2]] = parse_uint32(val)]

\* a key=value line stored into a structure through its two tables: the
\* string fields first, then the number fields
SetField(rec, strs, uints, key, val) ==
    IF Lookup(strs, key) # 0 THEN SetStr(rec, strs, Lookup(strs, key), val)
    ELSE IF Lookup(uints, key) # 0 THEN SetUInt(rec, uints, Lookup(uints, key), val)
    ELSE rec

\* lines the loops skip: empty, or beginning with # or ;
Ignored(l) == Len(l) = 0 \/ l[1] \in {Ascii("#"), Ascii(";")}

\* key = strip_whitespace(l) after *eq = '\0'
KeyOf(l, eq) == strip_whitespace(SubSeq(l, 1, eq - 1))

\* val = clean_cfg_string(eq + 1)
ValOf(l, eq) == clean_cfg_string(SubSeq(l, eq + 1, Len(l)))

\* the first loop's treatment of key and val; st = [hdr, num_files, next]
GlobalAssign(st, key, val) ==
    IF Lookup(HdrStrFields, key) # 0 \/ Lookup(HdrUIntFields, key) # 0
    THEN [st EXCEPT !.hdr = SetField(@, HdrStrFields, HdrUIntFields, key, val)]
    ELSE IF key = Fmt.number_of_files
         THEN [st EXCEPT !.num_files = parse_uint32(val)]
         ELSE st

\* the first loop's treatment of a line with eq = strchr(l, '=')
GlobalSplit(st, l, eq) ==
    IF eq = 0 THEN st ELSE GlobalAssign(st, KeyOf(l, eq), ValOf(l, eq))

\* the first loop's treatment of l = strip_whitespace(line)
GlobalStripped(st, l) ==
    IF Ignored(l) THEN st ELSE GlobalSplit(st, l, StrChr(l, Ascii("=")))

\* one line of the first loop (global header fields)
GlobalLine(st, line) == GlobalStripped(st, strip_whitespace(line))

\* while (fgets(line, sizeof(line), f)); next: the line fgets reads next
RECURSIVE GlobalLoop(_, _)
GlobalLoop(lines, st) ==
    IF st.next > Len(lines) THEN st
    ELSE GlobalLoop(lines, [GlobalLine(st, lines[st.next]) EXCEPT !.next = @ + 1])

\* a key=value line inside a file block, with eq = strchr(l, '=')
BlockSplit(st, l, eq) ==
    IF eq = 0 THEN st
    ELSE [st EXCEPT !.files[st.current_file + 1] =
              SetField(@, FileStrFields, FileUIntFields, KeyOf(l, eq), ValOf(l, eq))]

\* the second loop's treatment of a line, were the bound on current_file
\* reached one block early
BlockStrippedEarly(st, l, num_files) ==
    IF Ignored(l) THEN st
    ELSE IF /\ ~st.in_file_block
            /\ Take(l, 5) = Fmt.file
            /\ StrChr(l, Ascii("{")) # 0
         THEN IF st.current_file + 1 >= num_files
              THEN [st EXCEPT !.stop = TRUE]
              ELSE [st EXCEPT !.files[st.current_file + 1] = ZeroFileHeader,
                              !.in_file_block = TRUE]
    ELSE IF ~st.in_file_block THEN st
    ELSE IF StrChr(l, Ascii("}")) # 0
         THEN [st EXCEPT !.current_file = @ + 1, !.in_file_block = FALSE]
    ELSE BlockSplit(st, l, StrChr(l, Ascii("=")))

\* the second loop's treatment of l = strip_whitespace(line);
\* st = [files, current_file, in_file_block, stop, next]
BlockStripped(st, l, num_files) ==
    IF Ignored(l) THEN st
    ELSE IF /\ ~st.in_file_block
            /\ Take(l, 5) = Fmt.file
            /\ StrChr(l, Ascii("{")) # 0
         THEN IF st.current_file >= num_files
              THEN [st EXCEPT !.stop = TRUE]
              ELSE [st EXCEPT !.files[st.current_file + 1] = ZeroFileHeader,
                              !.in_file_block = TRUE]
    ELSE IF ~st.in_file_block THEN st
    ELSE IF StrChr(l, Ascii("}")) # 0
         THEN [st EXCEPT !.current_file = @ + 1, !.in_file_block = FALSE]
    ELSE BlockSplit(st, l, StrChr(l, Ascii("=")))

\* one line of the second loop (file blocks)
BlockLine(st, line, num_files) ==
    BlockStripped(st, strip_whitespace(line), num_files)

\* while (fgets(line, sizeof(line), f)) after rewind(f), left at break
RECURSIVE BlockLoop(_, _, _)
BlockLoop(lines, st, num_files) ==
    IF st.next > Len(lines) \/ st.stop THEN st
    ELSE BlockLoop(lines,
                   [BlockLine(st, lines[st.next], num_files) EXCEPT !.next = @ + 1],
                   num_files)

\* what load_image_config hands back: rc, the header, the array;
\* null: *files == NULL; touched: *hdr and *files were written
Loaded(rc, h, fs, null, touched) ==
    [rc |-> rc, hdr |-> h, files |-> fs, null |-> null, touched |-> touched]

\* load_image_config from calloc on, with n = num_files
LoadBlocks(lines, h, n, mem) ==
    IF n[2] # 0 \/ n[1] > mem
    THEN Loaded(1, h, <<>>, TRUE, TRUE)
    ELSE Loaded(0, h,
                BlockLoop(lines,
                          [files |-> [k \in 1..n[1] |-> ZeroFileHeader],
                           current_file |-> 0, in_file_block |-> FALSE,
                           stop |-> FALSE, next |-> 1], n[1]).files,
                FALSE, TRUE)

\* load_image_config after the first loop, which ended in state g
LoadGlobals(lines, g, mem) ==
    IF g.num_files = Zero32
    THEN Loaded(0, [g.hdr EXCEPT !.num_files = Zero32], <<>>, TRUE, TRUE)
    ELSE LoadBlocks(lines, [g.hdr EXCEPT !.num_files = g.num_files],
                    g.num_files, mem)

\* load_image_config on the lines fgets delivers
LoadLines(lines, mem) ==
    LoadGlobals(lines,
                GlobalLoop(lines, [hdr |-> ZeroHeader, num_files |-> Zero32,
                                   next |-> 1]),
                mem)

\* load_image_config(cfg_path, &hdr, &files); mem: the number of array
\* elements calloc can grant
load_image_config(cfgfile, mem) ==
    IF ~Readable(cfgfile)
    THEN Loaded(1, ZeroHeader, <<>>, TRUE, FALSE)
    ELSE LoadLines(Fgets(cfgfile.data, 1), mem)

\* "name=0x%08X;"
UIntLine(name, v) == name \o Fmt.eq \o Hex8(v) \o Fmt.semi

\* "name=\"%s\";"
StrLine(name, str) == name \o Fmt.eqquote \o str \o Fmt.quotesemi

\* the keys write_image_config prints in a file block, in order; the entry's
\* header_size goes under file_header_size
FileBlockKeys ==
    << Str("filename_length"), Str("file_header_size"), Str("maintype"),
       Str("subtype"), Str("unknown0"), Str("filename"), Str("stored_length"),
       Str("pad1"), Str("original_length"), Str("pad2"), Str("offset") >>

\* one line of a file block
FileBlockLine(k, fh) ==
    CASE k = 1 -> UIntLine(FileBlockKeys[1], fh.filename_length)
      [] k = 2 -> UIntLine(FileBlockKeys[2], fh.header_size)
      [] k = 3 -> StrLine(FileBlockKeys[3], fh.maintype)
      [] k = 4 -> StrLine(FileBlockKeys[4], fh.subtype)
      [] k = 5 -> UIntLine(FileBlockKeys[5], fh.unknown0)
      [] k = 6 -> StrLine(FileBlockKeys[6], fh.filename)
      [] k = 7 -> UIntLine(FileBlockKeys[7], fh.stored_length)
      [] k = 8 -> UIntLine(FileBlockKeys[8], fh.pad1)
      [] k = 9 -> UIntLine(FileBlockKeys[9], fh.original_length)
      [] k = 10 -> UIntLine(FileBlockKeys[10], fh.pad2)
      [] k = 11 -> UIntLine(FileBlockKeys[11], fh.offset)

\* the lines of one file block
FileBlock(i, fh) ==
    << Fmt.file \o Dec(i) \o Fmt.open >>
    \o [k \in 1..Len(FileBlockKeys) |-> FileBlockLine(k, fh)]
    \o << Fmt.close >>

RECURSIVE FileBlocks(_, _)
FileBlocks(fs, i) ==
    IF i > Len(fs) THEN <<>> ELSE FileBlock(i, fs[i]) \o FileBlocks(fs, i + 1)

\* write_image_config's hdr_uint_fields: key, field
HdrUIntNames ==
    << <<Str("header_version"), "header_version">>,
       <<Str("header_size"), "header_size">>,
       <<Str("base_ram"), "base_ram">>,
       <<Str("format_version"), "format_version">>,
       <<Str("total_image_size"), "total_image_size">>,
       <<Str("header_size_including_alignment"), "header_size_aligned">>,
       <<Str("file_header_length"), "file_header_length">>,
       <<Str("usb_product_id"), "usb_product_id">>,
       <<Str("usb_vendor_id"), "usb_vendor_id">>,
       <<Str("hardware_id"), "hardware_id">>,
       <<Str("firmware_id"), "firmware_id">>,
       <<Str("unknown_field_1"), "unknown1">>,
       <<Str("unknown_field_2"), "unknown2">>,
       <<Str("unknown_field_3"), "unknown3">> >>

\* the text write_image_config(cfg_path, hdr, files, num_files) writes;
\* fs holds the num_files elements of the array, or is <<>> for files == NULL
ConfigText(h, fs, num_files) ==
    << Fmt.image_cfg, StrLine(Fmt.magic, h.magic) >>
    \o [k \in 1..Len(HdrUIntNames) |->
           UIntLine(HdrUIntNames[k][1], h[HdrUIntNames[k][2]])]
    \o << UIntLine(Fmt.number_of_files, num_files) >>
    \o (IF num_files # Zero32 /\ fs # <<>>
        THEN << <<>>, Fmt.filelist >> \o FileBlocks(fs, 1)
        ELSE <<>>)

\* write_image_config(cfg_path, hdr, files, num_files): rc and the file at
\* cfg_path afterwards; fopen(cfg_path, "w") truncates or creates it
write_image_config(cfgfile, h, fs, num_files) ==
    IF cfgfile.exists /\ ~cfgfile.w
    THEN [rc |-> 1, cfg |-> cfgfile]
    ELSE [rc |-> 0,
          cfg |-> File(ConfigText(h, fs, num_files),
                       IF cfgfile.exists THEN cfgfile.r ELSE TRUE, TRUE)]

---------------------------------------------------------------------------
(* Container files.  The content of a container is kept as the log of the  *)
(* writes that produced it, oldest first; a write is a run of given bytes  *)
(* followed by a run of zero bytes, so that a record of file_header_length *)
(* bytes keeps its length whatever file_header_length is.                  *)

IMG_HEADER_HEADER_SIZE == 1024

FILE_HEADERS_START == 1024

PADDING_ALIGNMENT == 16

\* the bytes of a serialized ImageWTYFileHeader: the last field, offset,
\* ends at 0x134 + 4
RecordSize == 312

\* the bytes of a serialized ImageWTYHeader: the last field, unknown3,
\* ends at 0x40 + 4
HeaderSize == 68

Extent(at, data, zeros) == [at |-> at, data |-> data, zeros |-> zeros]

ExtentEnd(e) == WAdd(e.at, WAdd(W(Len(e.data)), e.zeros))

Container(ext, r, w) == [exists |-> TRUE, ext |-> ext, r |-> r, w |-> w]

\* a char array of `size` bytes holding a string in zeroed memory
PadTo(str, size) == [i \in 1..size |-> IF i <= Len(str) THEN str[i] ELSE 0]

\* a little-endian uint32_t at byte offset off of a byte sequence
FieldAt(bytes, off) ==
    Word(bytes[off + 1], bytes[off + 2], bytes[off + 3], bytes[off + 4])

---------------------------------------------------------------------------
(* img_repack.c                                                            *)

\* calculate_padding: *stored_length
calculate_padding(original_length) ==
    WMul16(WDiv16(WAdd(original_length, W(PADDING_ALIGNMENT - 1))))

\* fseek(in, 0, SEEK_END); ftell(in)
FileSize(f) == W(Len(f.data))

\* gh_buf: the fields of the global header at their offsets
GlobalHeaderBytes(h) ==
    PadTo(h.magic, 8) \o LE32(h.header_version) \o LE32(h.header_size)
    \o LE32(h.base_ram) \o LE32(h.format_version) \o LE32(h.total_image_size)
    \o LE32(h.header_size_aligned) \o LE32(h.file_header_length)
    \o LE32(h.usb_product_id) \o LE32(h.usb_vendor_id) \o LE32(h.hardware_id)
    \o LE32(h.firmware_id) \o LE32(h.unknown1) \o LE32(h.unknown2)
    \o LE32(h.num_files) \o LE32(h.unknown3)

\* fh_buf: the fields of a file header at their offsets; pad1 and pad2 are
\* written as zero
FileHeaderBytes(fh) ==
    LE32(fh.filename_length) \o LE32(fh.header_size) \o PadTo(fh.maintype, 8)
    \o PadTo(fh.subtype, 16) \o LE32(fh.unknown0) \o PadTo(fh.filename, 256)
    \o LE32(fh.stored_length) \o <<0, 0, 0, 0>> \o LE32(fh.original_length)
    \o <<0, 0, 0, 0>> \o LE32(fh.offset)

\* uint64_t offset = IMG_HEADER_HEADER_SIZE + (num_files * file_header_length),
\* computed in unsigned int
FirstOffset(h) ==
    U32Add(W(IMG_HEADER_HEADER_SIZE), U32Mul(h.num_files, h.file_header_length))

\* IMG_HEADER_HEADER_SIZE + i * file_header_length, computed in unsigned int
RecordPosition(h, i) ==
    U32Add(W(IMG_HEADER_HEADER_SIZE), U32Mul(W(i), h.file_header_length))

\* a layout step that keeps the original_length the manifest declares
LayoutEntryDeclared(fh, size, offset) ==
    [fh EXCEPT !.stored_length = U32(calculate_padding(fh.original_length)),
               !.offset = U32(offset)]

\* the three assignments of the layout loop for a file of `size` bytes
LayoutEntry(fh, size, offset) ==
    [fh EXCEPT !.original_length = U32(size),
               !.stored_length = U32(calculate_padding(size)),
               !.offset = U32(offset)]

\* mutant of LayoutLoop: a file that cannot be opened counts as empty
RECURSIVE LayoutLoopUnchecked(_, _, _, _)
LayoutLoopUnchecked(d, fs, i, offset) ==
    IF i > Len(fs) THEN [ok |-> TRUE, files |-> fs]
    ELSE LET name == fs[i].filename
             size == IF name \notin DOMAIN d \/ ~Readable(d[name])
                     THEN Zero32 ELSE FileSize(d[name])
         IN LayoutLoopUnchecked(d, [fs EXCEPT ![i] = LayoutEntry(@, size, offset)],
                                i + 1, WAdd(offset, calculate_padding(size)))

\* the layout loop from entry i on: ok, or the open of entry `at` failed
RECURSIVE LayoutLoop(_, _, _, _)
LayoutLoop(d, fs, i, offset) ==
    IF i > Len(fs) THEN [ok |-> TRUE, files |-> fs]
    ELSE LET name == fs[i].filename
         IN IF name \notin DOMAIN d \/ ~Readable(d[name])
            THEN [ok |-> FALSE, files |-> fs]
            ELSE LET size == FileSize(d[name])
                 IN LayoutLoop(d, [fs EXCEPT ![i] = LayoutEntry(@, size, offset)],
                               i + 1, WAdd(offset, calculate_padding(size)))

\* the file header loop: the writes it adds to the destination
RecordWrites(h, fs) ==
    [i \in 1..Len(fs) |->
        Extent(RecordPosition(h, i - 1), FileHeaderBytes(fs[i]),
               WSub(h.file_header_length, W(RecordSize)))]

\* fread(buf, 1, original_length, in): the bytes read
Payload(f, fh) ==
    IF WLess(FileSize(f), fh.original_length) THEN f.data
    ELSE SubSeq(f.data, 1, fh.original_length[1])

\* the payload loop from entry i on: the writes it adds (payload, then the
\* zero padding), and whether it reached the end
RECURSIVE PayloadLoop(_, _, _)
PayloadLoop(d, fs, i) ==
    IF i > Len(fs) THEN [ok |-> TRUE, ext |-> <<>>]
    ELSE LET fh == fs[i]
             name == fh.filename
         IN IF name \notin DOMAIN d \/ ~Readable(d[name])
            THEN [ok |-> FALSE, ext |-> <<>>]
            ELSE IF W(Len(Payload(d[name], fh))) # fh.original_length
                 THEN [ok |-> FALSE, ext |-> <<>>]
                 ELSE LET pad == IF WLess(fh.original_length, fh.stored_length)
                                 THEN WSub(fh.stored_length, fh.original_length)
                                 ELSE Zero32
                          rest == PayloadLoop(d, fs, i + 1)
                      IN [ok |-> rest.ok,
                          ext |-> <<Extent(fh.offset, Payload(d[name], fh), pad)>>
                                  \o rest.ext]

\* the commands still to run
Commands(cmds) == [cmds |-> cmds]

\* the value an operation returns; log: the commands that returned so far
\* and their exit statuses
Returned(op, rc, at) ==
    [op |-> op, done |-> TRUE, rc |-> rc, at |-> at,
     log |-> Append(ret.log, <<op, rc>>)]

NotReturned == [op |-> "none", done |-> FALSE, rc |-> 0, at |-> "none", log |-> <<>>]

\* a command has started
Running == [NotReturned EXCEPT !.log = ret.log]

\* repack_image(dump_folder, output_file): update_vfiles_if_needed
RepackImage ==
    /\ pc = "idle"
    /\ arg.cmds # <<>>
    /\ Head(arg.cmds) = "repack"
    /\ arg' = Commands(Tail(arg.cmds))
    /\ pc' = "scan"
    /\ scan' = OpenDir(TRUE, "r_load")
    /\ ret' = Running
    /\ UNCHANGED <<dir, cfg, image, out, hdr, files, env>>

\* mutant of ManifestLoaded: the result of load_image_config is not tested
ManifestLoadedUntested(r) ==
    /\ pc' = "r_open"
    /\ hdr' = r.hdr
    /\ files' = r.files
    /\ UNCHANGED ret

\* if (load_image_config(cfg_path, &hdr, &files) != 0 || !files) return 1
ManifestLoaded(r) ==
    IF r.rc # 0 \/ r.null
    THEN /\ pc' = "idle"
         /\ ret' = Returned("repack", 1, "load")
         /\ UNCHANGED <<hdr, files>>
    ELSE /\ pc' = "r_open"
         /\ hdr' = r.hdr
         /\ files' = r.files
         /\ UNCHANGED ret

\* repack_image: the manifest is loaded
LoadManifest ==
    /\ pc = "r_load"
    /\ ManifestLoaded(load_image_config(cfg, env.mem))
    /\ UNCHANGED <<dir, cfg, image, out, scan, arg, env>>

\* fopen(output_file, "wb")
OpenDestination ==
    /\ pc = "r_open"
    /\ IF out.exists /\ ~out.w
       THEN /\ pc' = "idle"
            /\ ret' = Returned("repack", 1, "open")
            /\ UNCHANGED out
       ELSE /\ pc' = "r_header"
            /\ out' = Container(<<>>, IF out.exists THEN out.r ELSE TRUE, TRUE)
            /\ UNCHANGED ret
    /\ UNCHANGED <<dir, cfg, image, hdr, files, scan, arg, env>>

\* fwrite(gh_buf, 1, sizeof(gh_buf), out) on a device with room
WriteGlobalHeader ==
    /\ pc = "r_header"
    /\ out' = [out EXCEPT !.ext = Append(@,
                  Extent(Zero32, GlobalHeaderBytes(hdr),
                         W(IMG_HEADER_HEADER_SIZE - HeaderSize)))]
    /\ pc' = "r_layout"
    /\ UNCHANGED <<dir, cfg, image, hdr, files, scan, arg, ret, env>>

\* mutant of UpdateLayout: the recomputed entries are written back to
\* image.cfg
UpdateLayoutWritingBack ==
    /\ pc = "r_layout"
    /\ LET r == LayoutLoop(dir, files, 1, FirstOffset(hdr))
       IN /\ files' = r.files
          /\ cfg' = write_image_config(cfg, hdr, r.files, hdr.num_files).cfg
          /\ IF r.ok
             THEN pc' = "r_records" /\ UNCHANGED ret
             ELSE pc' = "idle" /\ ret' = Returned("repack", 1, "layout")
    /\ UNCHANGED <<dir, image, out, hdr, scan, arg, env>>

\* the loop that updates stored_length and offset for each file
UpdateLayout ==
    /\ pc = "r_layout"
    /\ LET r == LayoutLoop(dir, files, 1, FirstOffset(hdr))
       IN /\ files' = r.files
          /\ IF r.ok
             THEN pc' = "r_records" /\ UNCHANGED ret
             ELSE pc' = "idle" /\ ret' = Returned("repack", 1, "layout")
    /\ UNCHANGED <<dir, cfg, image, out, hdr, scan, arg, env>>

\* the loop that writes the file headers; with a buffer of fewer than
\* RecordSize bytes the memcpy calls write outside it
WriteFileHeaders ==
    /\ pc = "r_records"
    /\ IF files # <<>> /\ WLess(hdr.file_header_length, W(RecordSize))
       THEN pc' = "undefined" /\ UNCHANGED out
       ELSE /\ pc' = "r_payload"
            /\ out' = [out EXCEPT !.ext = @ \o RecordWrites(hdr, files)]
    /\ UNCHANGED <<dir, cfg, image, hdr, files, scan, arg, ret, env>>

\* the loop that writes file data with padding
WritePayloads ==
    /\ pc = "r_payload"
    /\ LET r == PayloadLoop(dir, files, 1)
       IN /\ out' = [out EXCEPT !.ext = @ \o r.ext]
          /\ ret' = Returned("repack", IF r.ok THEN 0 ELSE 1, "payload")
    /\ pc' = "idle"
    /\ UNCHANGED <<dir, cfg, image, hdr, files, scan, arg, env>>

---------------------------------------------------------------------------
(* img_header.c: reading a container.                                      *)

\* the length of a container file: the farthest end of a write
ContainerSize(c) ==
    IF c.ext = <<>> THEN Zero32
    ELSE ExtentEnd(c.ext[CHOOSE k \in DOMAIN c.ext :
                            \A o \in DOMAIN c.ext :
                               WLeq(ExtentEnd(c.ext[o]), ExtentEnd(c.ext[k]))])

\* the latest write that covers position p, 0 if p lies in a hole
Covering(c, p) ==
    IF \E k \in DOMAIN c.ext : WLeq(c.ext[k].at, p) /\ WLess(p, ExtentEnd(c.ext[k]))
    THEN CHOOSE k \in DOMAIN c.ext :
            /\ WLeq(c.ext[k].at, p) /\ WLess(p, ExtentEnd(c.ext[k]))
            /\ \A o \in (k + 1)..Len(c.ext) :
                  ~(WLeq(c.ext[o].at, p) /\ WLess(p, ExtentEnd(c.ext[o])))
    ELSE 0

\* the byte a write left d bytes after its start
ByteIn(e, d) == IF WLess(d, W(Len(e.data))) THEN e.data[d[1] + 1] ELSE 0

\* the byte at position p, written last by write k
ByteOf(c, p, k) == IF k = 0 THEN 0 ELSE ByteIn(c.ext[k], WSub(p, c.ext[k].at))

\* the number of bytes fread(buf, 1, n, f) gets at position p of a file of
\* `size` bytes
Avail(size, p, n) ==
    IF WLeq(size, p) THEN 0
    ELSE IF WLess(WSub(size, p), W(n)) THEN WSub(size, p)[1] ELSE n

\* fseek(f, p, SEEK_SET); fread(buf, 1, n, f): the bytes read
ReadAt(c, p, n) ==
    [i \in 1..Avail(ContainerSize(c), p, n) |->
        ByteOf(c, WAdd(p, W(i - 1)), Covering(c, WAdd(p, W(i - 1))))]

\* a char array read as a C string: the bytes before the first NUL
CStr(b) == IF StrChr(b, 0) = 0 THEN b ELSE Take(b, StrChr(b, 0) - 1)

\* read_image_header on the bytes at the start of the file; a short read
\* ends the process
HeaderFrom(b) ==
    IF Len(b) < HeaderSize THEN [ok |-> FALSE, hdr |-> ZeroHeader]
    ELSE [ok |-> TRUE,
          hdr |-> [magic |-> CStr(SubSeq(b, 1, 8)),
                   header_version |-> FieldAt(b, 8), header_size |-> FieldAt(b, 12),
                   base_ram |-> FieldAt(b, 16), format_version |-> FieldAt(b, 20),
                   total_image_size |-> FieldAt(b, 24),
                   header_size_aligned |-> FieldAt(b, 28),
                   file_header_length |-> FieldAt(b, 32),
                   usb_product_id |-> FieldAt(b, 36), usb_vendor_id |-> FieldAt(b, 40),
                   hardware_id |-> FieldAt(b, 44), firmware_id |-> FieldAt(b, 48),
                   unknown1 |-> FieldAt(b, 52), unknown2 |-> FieldAt(b, 56),
                   num_files |-> FieldAt(b, 60), unknown3 |-> FieldAt(b, 64)]]

read_image_header(c) == HeaderFrom(ReadAt(c, Zero32, HeaderSize))

\* if (fh->filename_length > 256) fh->filename_length = 256
ClampLength(len) == IF WLess(W(256), len) THEN W(256) ELSE len

\* read_file_header on the bytes of a record, fl the clamped filename_length
FileHeaderFrom(b, fl) ==
    [filename_length |-> fl, header_size |-> FieldAt(b, 4),
     maintype |-> CStr(SubSeq(b, 9, 16)), subtype |-> CStr(SubSeq(b, 17, 32)),
     unknown0 |-> FieldAt(b, 32), filename |-> CStr(SubSeq(b, 37, 36 + fl[1])),
     stored_length |-> FieldAt(b, 292), pad1 |-> FieldAt(b, 296),
     original_length |-> FieldAt(b, 300), pad2 |-> FieldAt(b, 304),
     offset |-> FieldAt(b, 308)]

\* read_file_header at the current position; a short read ends the process
read_file_header(b) ==
    IF Len(b) < RecordSize THEN [ok |-> FALSE, fh |-> ZeroFileHeader]
    ELSE [ok |-> TRUE, fh |-> FileHeaderFrom(b, ClampLength(FieldAt(b, 0)))]

\* FILE_HEADERS_START + i * file_header_length, computed in unsigned int
HeaderPosition(i, file_header_length) ==
    U32Add(W(FILE_HEADERS_START), U32Mul(W(i), file_header_length))

\* the records read so far, one more read
ReadNext(r, one) ==
    IF one.ok THEN [ok |-> TRUE, files |-> Append(r.files, one.fh)]
    ELSE [ok |-> FALSE, files |-> r.files]

\* the loop of read_all_file_headers from record i on, r the records read
RECURSIVE ReadHeaders(_, _, _, _, _)
ReadHeaders(c, num_files, file_header_length, i, r) ==
    IF ~r.ok \/ i >= num_files THEN r
    ELSE ReadHeaders(c, num_files, file_header_length, i + 1,
                     ReadNext(r, read_file_header(
                         ReadAt(c, HeaderPosition(i, file_header_length), RecordSize))))

\* read_all_file_headers where malloc(0) returns NULL
read_all_file_headersNull(c, num_files, file_header_length, mem) ==
    IF num_files = Zero32 \/ WLess(W(mem), num_files)
    THEN [ok |-> FALSE, files |-> <<>>]
    ELSE ReadHeaders(c, num_files[1], file_header_length, 0,
                     [ok |-> TRUE, files |-> <<>>])

\* read_all_file_headers(f, num_files, file_header_length) with memory for
\* mem records: malloc of more fails, and so does reading num_files records
\* when num_files is beyond any file; a failure ends the process
read_all_file_headers(c, num_files, file_header_length, mem) ==
    IF WLess(W(mem), num_files) THEN [ok |-> FALSE, files |-> <<>>]
    ELSE ReadHeaders(c, num_files[1], file_header_length, 0,
                     [ok |-> TRUE, files |-> <<>>])

---------------------------------------------------------------------------
(* img_extract.c                                                           *)

\* the buffer fwrite takes n bytes from after fread put b into it: what
\* fread did not fill is whatever malloc returned
Extracted(b, n, fill) == b \o [i \in 1..(n - Len(b)) |-> fill]

\* one round of the extraction loop: the dump directory after it.  The
\* entry is skipped when fopen(filepath, "wb") fails; the names are those
\* the directory can hold.
ExtractEntry(c, d, fh, fill) ==
    IF fh.filename \notin DOMAIN d THEN d
    ELSE IF d[fh.filename].exists /\ ~d[fh.filename].w THEN d
    ELSE [d EXCEPT ![fh.filename] =
             File(Extracted(ReadAt(c, fh.offset, fh.original_length[1]),
                            fh.original_length[1], fill),
                  IF d[fh.filename].exists THEN d[fh.filename].r ELSE TRUE, TRUE)]

\* mutant of ExtractLoop: the loop is left at the first entry whose output
\* file cannot be created
RECURSIVE ExtractLoopBreak(_, _, _, _, _)
ExtractLoopBreak(c, d, fs, i, fill) ==
    IF i > Len(fs) THEN d
    ELSE IF fs[i].filename \notin DOMAIN d THEN d
    ELSE IF d[fs[i].filename].exists /\ ~d[fs[i].filename].w THEN d
    ELSE ExtractLoopBreak(c, ExtractEntry(c, d, fs[i], fill), fs, i + 1, fill)

\* the extraction loop from entry i on
RECURSIVE ExtractLoop(_, _, _, _, _)
ExtractLoop(c, d, fs, i, fill) ==
    IF i > Len(fs) THEN d
    ELSE ExtractLoop(c, ExtractEntry(c, d, fs[i], fill), fs, i + 1, fill)

\* what uninitialized memory may hold
Fills == {0, 255}

\* the file headers are read, or the process has ended
HeadersRead(r) ==
    IF r.ok
    THEN /\ pc' = "x_mkdir"
         /\ files' = r.files
         /\ UNCHANGED ret
    ELSE /\ pc' = "idle"
         /\ ret' = Returned("extract", 1, "exit")
         /\ UNCHANGED files

\* mutant of HeaderRead: the magic is not tested
HeaderReadAnyMagic(r) ==
    IF ~r.ok
    THEN /\ pc' = "idle"
         /\ ret' = Returned("extract", 1, "exit")
         /\ UNCHANGED <<hdr, files>>
    ELSE /\ hdr' = r.hdr
         /\ HeadersRead(read_all_file_headers(image, r.hdr.num_files,
                                              r.hdr.file_header_length, env.mem))

\* the main header is read: the magic test and read_all_file_headers
HeaderRead(r) ==
    IF ~r.ok
    THEN /\ pc' = "idle"
         /\ ret' = Returned("extract", 1, "exit")
         /\ UNCHANGED <<hdr, files>>
    ELSE IF r.hdr.magic # Fmt.imagewty
    THEN /\ pc' = "idle"
         /\ ret' = Returned("extract", 1, "magic")
         /\ UNCHANGED <<hdr, files>>
    ELSE /\ hdr' = r.hdr
         /\ HeadersRead(read_all_file_headers(image, r.hdr.num_files,
                                              r.hdr.file_header_length, env.mem))

\* extract_image(img_filename): the image is opened and its headers read
ExtractImage ==
    /\ pc = "idle"
    /\ arg.cmds # <<>>
    /\ Head(arg.cmds) = "extract"
    /\ arg' = Commands(Tail(arg.cmds))
    /\ IF ~Readable(image)
       THEN /\ pc' = "idle"
            /\ ret' = Returned("extract", 1, "open")
            /\ UNCHANGED <<hdr, files>>
       ELSE HeaderRead(read_image_header(image))
    /\ UNCHANGED <<dir, cfg, image, out, scan, env>>

\* mkdir(dump_dir, 0755) && errno != EEXIST
MakeDumpDir ==
    /\ pc = "x_mkdir"
    /\ IF env.dumpdir = "denied"
       THEN /\ pc' = "idle"
            /\ ret' = Returned("extract", 1, "mkdir")
            /\ UNCHANGED env
       ELSE /\ pc' = "x_manifest"
            /\ env' = [env EXCEPT !.dumpdir = "dir"]
            /\ UNCHANGED ret
    /\ UNCHANGED <<dir, cfg, image, out, hdr, files, scan, arg>>

\* write_image_config(cfg_path, &hdr, files, hdr.num_files); a failure is
\* reported and extraction goes on
WriteManifest ==
    /\ pc = "x_manifest"
    /\ cfg' = write_image_config(cfg, hdr, files, hdr.num_files).cfg
    /\ pc' = "x_files"
    /\ UNCHANGED <<dir, image, out, hdr, files, scan, arg, ret, env>>

\* the extraction loop, then verify_vfiles_checksums(dump_dir)
ExtractFiles ==
    /\ pc = "x_files"
    /\ \E fill \in Fills : dir' = ExtractLoop(image, dir, files, 1, fill)
    /\ pc' = "x_scan"
    /\ UNCHANGED <<cfg, image, out, hdr, files, scan, arg, ret, env>>

\* mutant of VerifyExtracted: the scan repairs
VerifyExtractedRepairing ==
    /\ pc = "x_scan"
    /\ pc' = "scan"
    /\ scan' = OpenDir(TRUE, "x_return")
    /\ UNCHANGED <<dir, cfg, image, out, hdr, files, arg, ret, env>>

\* verify_vfiles_checksums(dump_dir) is called on the extracted files
VerifyExtracted ==
    /\ pc = "x_scan"
    /\ pc' = "scan"
    /\ scan' = OpenDir(FALSE, "x_return")
    /\ UNCHANGED <<dir, cfg, image, out, hdr, files, arg, ret, env>>

\* return 0
ExtractReturn ==
    /\ pc = "x_return"
    /\ pc' = "idle"
    /\ ret' = Returned("extract", 0, "end")
    /\ UNCHANGED <<dir, cfg, image, out, hdr, files, scan, arg, env>>

---------------------------------------------------------------------------
(* Specification of compute_checksum on one file.                          *)

SumBytes == {0, 1, 255}

SumInit ==
    /\ pc = "call"
    /\ \E f \in {NoFile} \cup
                {File(d, r, TRUE) : d \in SeqsUpTo(SumBytes, MaxLen), r \in BOOLEAN} :
           dir = [n \in Names |-> IF n = N_a THEN f ELSE NoFile]
    /\ arg = N_a
    /\ cfg = NoFile /\ image = None /\ out = NoFile /\ hdr = None
    /\ files = <<>> /\ scan = ScanIdle /\ ret = None /\ env = EnvIdle

ComputeChecksum ==
    /\ pc = "call"
    /\ ret' = compute_checksum(dir, arg)
    /\ pc' = "returned"
    /\ UNCHANGED <<dir, cfg, image, out, hdr, files, scan, arg, env>>

SumNext == ComputeChecksum

SpecSum == SumInit /\ [][SumNext]_vars

\* the sum of the bytes at the positions congruent to j modulo 4
RECURSIVE ColumnSum(_, _, _)
ColumnSum(data, j, i) ==
    IF i > Len(data) THEN 0
    ELSE (IF (i - 1) % 4 = j THEN data[i] ELSE 0) + ColumnSum(data, j, i + 1)

\* the exact sum of the zero-padded little-endian words of data
ExactWordSum(data) ==
    LET low == Norm(ColumnSum(data, 0, 1), 0)
        mid == Norm(256 * ColumnSum(data, 1, 1), 0)
    IN WAdd(WAdd(low, mid),
            <<0, ColumnSum(data, 2, 1) + 256 * ColumnSum(data, 3, 1)>>)

\* C5: compute_checksum of a readable file is the sum modulo 2^32 of its
\* zero-padded 4-byte little-endian words, for every length (also lengths
\* that are no multiple of 4 and lengths beyond the read buffer).
C5_ChecksumIsWordSum ==
    (pc = "returned" /\ Readable(dir[arg])) =>
        ret = U32(ExactWordSum(dir[arg].data))

\* a file longer than the read buffer, with a trailing partial word, whose
\* exact sum does not fit 32 bits
C5_Witness ==
    /\ pc = "returned"
    /\ Readable(dir[arg])
    /\ Len(dir[arg].data) > BufSize
    /\ Len(dir[arg].data) % 4 # 0
    /\ ExactWordSum(dir[arg].data)[2] >= Half
    /\ ret = U32(ExactWordSum(dir[arg].data))

---------------------------------------------------------------------------
(* Specification of the checksum scans of one dump directory.              *)

\* contents drawn for the payload a.fex (checksum 1)
PayloadData == {<<1>>}

\* contents drawn for a side-file: the value 0, the value 1, a file shorter
\* than 4 bytes, and a file longer than 4 bytes holding the value 2
VfileData == {<<0, 0, 0, 0>>, <<1, 0, 0, 0>>, <<1, 0>>, <<2, 0, 0, 0, 9>>}

\* fault "r" makes fopen(.., "rb") fail, fault "w" makes fopen(.., "wb") fail
WithFaults(f, name, faults) ==
    IF f.exists
    THEN File(f.data, <<name, "r">> \notin faults, <<name, "w">> \notin faults)
    ELSE NoFile

Healthy(S) == {NoFile} \cup {File(d, TRUE, TRUE) : d \in S}

ScanInit ==
    /\ pc = "idle"
    /\ \E a \in Healthy(PayloadData), va \in Healthy(VfileData),
          vva \in Healthy({<<0, 0, 0, 0>>}), vb \in Healthy({<<7, 0, 0, 0>>}),
          faults \in SUBSET ({N_a, N_Va} \X {"r", "w"}) :
           /\ Cardinality(faults) <= MaxFaults
           /\ LET drawn == [n \in Names |->
                               CASE n = N_a -> a
                                 [] n = N_Va -> va
                                 [] n = N_VVa -> vva
                                 [] n = N_Vvbmeta -> vb
                                 [] OTHER -> NoFile]
              IN /\ \A f \in faults : drawn[f[1]].exists
                 /\ dir = [n \in Names |-> WithFaults(drawn[n], n, faults)]
    /\ scan = ScanIdle
    /\ arg = None
    /\ cfg = NoFile /\ image = None /\ out = NoFile /\ hdr = None
    /\ files = <<>> /\ ret = None /\ env = EnvIdle

ScanNext == VerifyVfiles \/ UpdateVfiles \/ ScanEntry \/ FinishScan

SpecScan == ScanInit /\ [][ScanNext]_vars

\* the value a side-file stores: its first four bytes, little-endian
Stored(f) == Word(f.data[1], f.data[2], f.data[3], f.data[4])

HasStored(f) == Readable(f) /\ Len(f.data) >= 4

\* a side-file the scan is to check
Checked(n) == IsVfex(n) /\ ~IsExempt(n)

\* the entry n is handled by this step of the scan
Handles(n) == pc = "scan" /\ n \in scan.todo /\ n \notin scan'.todo

\* the side-file n stores a value that differs from the checksum of its
\* readable sibling
Mismatch(d, n) ==
    /\ HasStored(d[n])
    /\ Readable(d[Tail(n)])
    /\ Stored(d[n]) # U32(ExactWordSum(d[Tail(n)].data))

\* C6 (stated for the side-files that are readable, hold at least 4 bytes
\* and are writable; the claim covers more): after one repairing scan, a
\* second repairing scan reports OK for every side-file it checks.
C6_SecondRepairAllOK ==
    (pc = "idle" /\ scan.modes = <<TRUE, TRUE>>) =>
        \A n \in Names :
            (Checked(n) /\ HasStored(dir[n]) /\ dir[n].w) => scan.report[n] = "OK"

\* C7 as claimed: in a repairing scan, handling a side-file that stores a
\* value different from the checksum of its readable sibling leaves the
\* side-file with exactly the 4 little-endian bytes of that checksum.
C7_RepairWritesChecksum ==
    [][\A n \in Names :
          (Handles(n) /\ scan.update /\ Checked(n) /\ Mismatch(dir, n)) =>
              dir'[n].data = LE32(U32(ExactWordSum(dir[Tail(n)].data)))]_vars

\* C7 as amended: the same, for a side-file that can be opened for writing;
\* one that cannot is left as it was.
C7_RepairWritesChecksumIfWritable ==
    [][\A n \in Names :
          (Handles(n) /\ scan.update /\ Checked(n) /\ Mismatch(dir, n)) =>
              IF dir[n].w
              THEN dir'[n].data = LE32(U32(ExactWordSum(dir[Tail(n)].data)))
              ELSE dir'[n] = dir[n]]_vars

\* a repairing scan has rewritten a writable side-file of a readable
\* sibling with that sibling's checksum
C7_Witness ==
    /\ pc = "scan"
    /\ scan.update
    /\ \E n \in Names :
          /\ scan.report[n] = "FIX"
          /\ Readable(dir[Tail(n)])
          /\ dir[n].w
          /\ dir[n].data = LE32(U32(ExactWordSum(dir[Tail(n)].data)))

\* C8: a verifying scan changes no file of the dump directory; a mismatch is
\* reported as FAIL and the loop goes on to the next entry.
C8_VerifyChangesNothing ==
    [][(pc = "scan" /\ ~scan.update) =>
          /\ dir' = dir
          /\ \A n \in Names :
                (Handles(n) /\ Checked(n) /\ Mismatch(dir, n)) =>
                    scan'.report[n] = "FAIL" /\ scan'.loop = "readdir"]_vars

\* a finished verifying scan that reported a mismatch
C8_Witness ==
    /\ pc = "idle"
    /\ Len(scan.modes) = 1 /\ ~scan.modes[1]
    /\ \E n \in Names : scan.report[n] = "FAIL" /\ Mismatch(dir, n)

\* C9: a side-file whose sibling is missing or unreadable is never reported
\* OK and keeps its content, in both modes.
C9_MissingSiblingSkipped ==
    [][\A n \in Names :
          (Handles(n) /\ Checked(n) /\ HasStored(dir[n]) /\ ~Readable(dir[Tail(n)])) =>
              scan'.report[n] # "OK" /\ dir'[n] = dir[n]]_vars

\* C10: when a scan ends, every V*.fex entry of the directory was handled
\* exactly once, and every non-exempt one got its report, whatever failed
\* on the entries handled before it.
C10_EveryEntryOnce ==
    (pc = "idle" /\ Len(scan.modes) > 0) =>
        \A n \in Present(dir) :
            IsVfex(n) => /\ scan.count[n] = 1
                         /\ Checked(n) => scan.report[n] # "none"

\* a finished scan in which a side-file was handled after a failure
C10_Witness ==
    /\ pc = "idle"
    /\ Len(scan.modes) > 0
    /\ scan.failed
    /\ \E n \in scan.late : Checked(n) /\ scan.count[n] = 1 /\ scan.report[n] = "OK"

---------------------------------------------------------------------------
(* Specification of the manifest codec: a header and an entry list held in *)
(* memory are written with write_image_config and loaded back with         *)
(* load_image_config.                                                      *)

\* the maintype and subtype of the entries drawn
CommonType == Str("COMMON  ")

ConfigSubtype == Str("SYS_CONFIG100000")

\* a header whose fields all differ
HeaderOf(seed, n) ==
    [magic |-> Fmt.imagewty,
     header_version |-> U32Add(seed, W(1)), header_size |-> U32Add(seed, W(2)),
     base_ram |-> U32Add(seed, W(3)), format_version |-> U32Add(seed, W(4)),
     total_image_size |-> U32Add(seed, W(5)),
     header_size_aligned |-> U32Add(seed, W(6)),
     file_header_length |-> U32Add(seed, W(7)),
     usb_product_id |-> U32Add(seed, W(8)), usb_vendor_id |-> U32Add(seed, W(9)),
     hardware_id |-> U32Add(seed, W(10)), firmware_id |-> U32Add(seed, W(11)),
     unknown1 |-> U32Add(seed, W(12)), unknown2 |-> U32Add(seed, W(13)),
     num_files |-> W(n), unknown3 |-> U32Add(seed, W(14))]

\* a file entry whose fields all differ
EntryOf(seed, name, hs) ==
    [filename_length |-> U32Add(seed, W(21)), header_size |-> hs,
     maintype |-> CommonType, subtype |-> ConfigSubtype,
     unknown0 |-> U32Add(seed, W(22)), filename |-> name,
     stored_length |-> U32Add(seed, W(23)), pad1 |-> U32Add(seed, W(24)),
     original_length |-> U32Add(seed, W(25)), pad2 |-> U32Add(seed, W(26)),
     offset |-> U32Add(seed, W(27))]

CfgSeeds == {<<43981, 65280>>, <<Half - 1, Half - 1>>}

CfgInit ==
    /\ pc = "have"
    /\ \E seed \in CfgSeeds :
          \E fs \in SeqsUpTo({EntryOf(seed, N_a, Zero32),
                              EntryOf(seed, N_a, <<1024, 0>>),
                              EntryOf(seed, N_Va, <<1024, 0>>)}, MaxEntries) :
             /\ hdr = HeaderOf(seed, Len(fs))
             /\ files = fs
    /\ cfg \in {NoFile, File(<<Str("stale")>>, TRUE, TRUE),
                File(<<Str("stale")>>, TRUE, FALSE)}
    /\ dir = <<>>
    /\ image = None
    /\ out = NoFile
    /\ scan = ScanIdle
    /\ arg = None
    /\ ret = None
    /\ env = EnvIdle

\* write_image_config(cfg_path, &hdr, files, hdr.num_files)
WriteImageConfig ==
    /\ pc = "have"
    /\ LET r == write_image_config(cfg, hdr, files, hdr.num_files)
       IN /\ cfg' = r.cfg
          /\ ret' = [op |-> "write", rc |-> r.rc]
    /\ pc' = "written"
    /\ UNCHANGED <<dir, image, out, hdr, files, scan, arg, env>>

\* load_image_config(cfg_path, &loaded, &list) into fresh variables
LoadImageConfig ==
    /\ pc = "written"
    /\ \E mem \in {0, CallocLimit} :
          ret' = [op |-> "load", wrote |-> ret.rc, mem |-> mem,
                  res |-> load_image_config(cfg, mem)]
    /\ pc' = "loaded"
    /\ UNCHANGED <<dir, cfg, image, out, hdr, files, scan, arg, env>>

CfgNext == WriteImageConfig \/ LoadImageConfig

SpecCfg == CfgInit /\ [][CfgNext]_vars

\* the manifest was written and then loaded with memory for the array
RoundTripped ==
    pc = "loaded" /\ ret.wrote = 0 /\ ret.mem >= Len(files)

\* C1: loading the manifest that write_image_config produced for (h, e)
\* returns a header and an entry list equal to (h, e) field by field,
\* each entry's own header_size and the file count included.
C1_ManifestRoundTrip ==
    RoundTripped =>
        /\ ret.res.rc = 0
        /\ ret.res.hdr = hdr
        /\ ret.res.files = files

---------------------------------------------------------------------------
(* Specification of repack_image on a dump directory whose manifest        *)
(* declares arbitrary lengths and offsets.                                 *)

\* file_header_length values of a manifest: the usual 0x400, 0x80000000,
\* and none
RecordLengths == {<<1024, 0>>, <<0, 32768>>, Zero32}

\* the seeds of the lengths and offsets a manifest declares: the first
\* declares original_length 1, the second 24
RepackSeeds == {<<65512, 65535>>, <<Half - 1, Half - 1>>}

\* the entry lists of a manifest
RepackLists ==
    UNION {SeqsUpTo({EntryOf(seed, name, <<1024, 0>>) : name \in {N_a, N_Va}},
                    MaxEntries) : seed \in RepackSeeds}

RepackFiles ==
    [a |-> {NoFile, File(<<>>, TRUE, TRUE), File(<<1>>, FALSE, TRUE),
            File(<<1, 2, 3, 4, 5, 6, 7, 8, 9, 10, 11, 12, 13, 14, 15, 16, 17>>,
                 TRUE, TRUE)},
     va |-> {NoFile, File(<<0, 0, 0, 0>>, TRUE, TRUE)}]

RepackInit ==
    /\ pc = "idle"
    /\ arg = Commands(<<"repack">>)
    /\ \E fa \in RepackFiles.a, fva \in RepackFiles.va :
          dir = [n \in Names |-> IF n = N_a THEN fa
                                 ELSE IF n = N_Va THEN fva ELSE NoFile]
    /\ \E fhl \in RecordLengths, fs \in RepackLists :
          cfg \in {NoFile,
                   File(ConfigText([HeaderOf(<<256, 0>>, Len(fs))
                                       EXCEPT !.file_header_length = fhl],
                                   fs, W(Len(fs))), TRUE, TRUE)}
    /\ out \in {NoFile, Container(<<>>, TRUE, FALSE)}
    /\ image = None
    /\ hdr = None
    /\ files = <<>>
    /\ scan = ScanIdle
    /\ ret = NotReturned
    /\ env = EnvIdle

RepackNext ==
    \/ RepackImage
    \/ ScanEntry
    \/ FinishScan
    \/ LoadManifest
    \/ OpenDestination
    \/ WriteGlobalHeader
    \/ UpdateLayout
    \/ WriteFileHeaders
    \/ WritePayloads

SpecRepack == RepackInit /\ [][RepackNext]_vars

\* repack_image returned 0
RepackSucceeded == ret.op = "repack" /\ ret.done /\ ret.rc = 0

\* the bytes written for the file header of entry i (the first write is the
\* global header)
WrittenRecord(i) == out.ext[i + 1].data

WrittenStored(i) == FieldAt(WrittenRecord(i), 292)

WrittenOriginal(i) == FieldAt(WrittenRecord(i), 300)

WrittenOffset(i) == FieldAt(WrittenRecord(i), 308)

\* what the manifest declares, read again from image.cfg
Declared == load_image_config(cfg, env.mem).files

\* v added k times, exactly
RECURSIVE Times(_, _)
Times(k, v) == IF k = 0 THEN Zero32 ELSE WAdd(v, Times(k - 1, v))

\* the current size of the file entry i names, rounded up to 16
SizeOf(i) == Len(dir[files[i].filename].data)

RoundUp16(n) == ((n + 15) \div 16) * 16

\* the sum of the rounded sizes of the entries before entry i
RECURSIVE SizesBefore(_)
SizesBefore(i) == IF i <= 1 THEN 0 ELSE SizesBefore(i - 1) + RoundUp16(SizeOf(i - 1))

\* C3: in a container produced by a successful repack, offset[0] is
\* 1024 + num_files * file_header_length, each next offset is the previous
\* one plus its stored_length, stored lengths are multiples of 16 no less
\* than and less than 16 above the original lengths, and the entries are in
\* the manifest's order.
C3_LayoutInvariant ==
    RepackSucceeded =>
        \A i \in 1..Len(files) :
            /\ i = 1 => WrittenOffset(1) =
                           WAdd(W(1024), Times(Len(files), hdr.file_header_length))
            /\ i > 1 => WrittenOffset(i) =
                           WAdd(WrittenOffset(i - 1), WrittenStored(i - 1))
            /\ WrittenStored(i)[1] % 16 = 0
            /\ WLeq(WrittenOriginal(i), WrittenStored(i))
            /\ WLess(WSub(WrittenStored(i), WrittenOriginal(i)), W(16))
            /\ SubSeq(WrittenRecord(i), 37, 36 + Len(Declared[i].filename))
                  = Declared[i].filename

\* C4: the offset, stored_length and original_length repack writes for an
\* entry are those of the current sizes of the files and of the entry's
\* position, whatever the manifest declares for them.
C4_LayoutFromSizes ==
    RepackSucceeded =>
        \A i \in 1..Len(files) :
            /\ WrittenOriginal(i) = W(SizeOf(i))
            /\ WrittenStored(i) = W(RoundUp16(SizeOf(i)))
            /\ WrittenOffset(i) =
                  U32(WAdd(W(1024 + SizesBefore(i)),
                           Times(Len(files), hdr.file_header_length)))

\* a successful repack wrote lengths and an offset that the manifest did
\* not declare
C4_Witness ==
    /\ RepackSucceeded
    /\ \E i \in 1..Len(files) :
          /\ Declared[i].original_length # WrittenOriginal(i)
          /\ Declared[i].stored_length # WrittenStored(i)
          /\ Declared[i].offset # WrittenOffset(i)
          /\ SizeOf(i) > 0


---------------------------------------------------------------------------
(* Specification of extract_image on a container followed by repack_image  *)
(* on the dump directory it made.                                          *)

\* a file header as a container stores it, in the order read_file_header
\* reads the fields
ImageRecord(fh) ==
    LE32(fh.filename_length) \o LE32(fh.header_size) \o PadTo(fh.maintype, 8)
    \o PadTo(fh.subtype, 16) \o LE32(fh.unknown0) \o PadTo(fh.filename, 256)
    \o LE32(fh.stored_length) \o LE32(fh.pad1) \o LE32(fh.original_length)
    \o LE32(fh.pad2) \o LE32(fh.offset)

\* the main header as a container stores it, in the order read_image_header
\* reads the fields
ImageHeader(h) ==
    PadTo(h.magic, 8) \o LE32(h.header_version) \o LE32(h.header_size)
    \o LE32(h.base_ram) \o LE32(h.format_version) \o LE32(h.total_image_size)
    \o LE32(h.header_size_aligned) \o LE32(h.file_header_length)
    \o LE32(h.usb_product_id) \o LE32(h.usb_vendor_id) \o LE32(h.hardware_id)
    \o LE32(h.firmware_id) \o LE32(h.unknown1) \o LE32(h.unknown2)
    \o LE32(h.num_files) \o LE32(h.unknown3)

\* the payload of a.fex in the containers drawn
PayloadOfA == <<1, 2, 3, 4, 5, 6, 7, 8, 9, 10, 11, 12, 13, 14, 15, 16, 17>>

\* the members a container may hold: a.fex with a header_size of 0x400 or
\* 0 and pad1, pad2 of 0 or 5, and the side-file Va.fex holding the checksum
\* of a.fex
Members ==
    {[name |-> N_a, data |-> PayloadOfA, header_size |-> hs, pad |-> pad] :
        hs \in {<<1024, 0>>, Zero32}, pad \in {Zero32, <<5, 0>>}}
    \cup {[name |-> N_Va, data |-> LE32(SumLoop(PayloadOfA, 0, Zero32)),
           header_size |-> Zero32, pad |-> Zero32]}

\* the file header of a member whose payload is stored at offset
MemberHeader(m, offset) ==
    [filename_length |-> W(256), header_size |-> m.header_size,
     maintype |-> CommonType, subtype |-> ConfigSubtype,
     unknown0 |-> Zero32, filename |-> m.name,
     stored_length |-> W(RoundUp16(Len(m.data))), pad1 |-> m.pad,
     original_length |-> W(Len(m.data)), pad2 |-> m.pad, offset |-> W(offset)]

\* the file headers of the members from member i on, packed from offset on
RECURSIVE MemberHeaders(_, _, _)
MemberHeaders(ms, i, offset) ==
    IF i > Len(ms) THEN <<>>
    ELSE << MemberHeader(ms[i], offset) >>
         \o MemberHeaders(ms, i + 1, offset + RoundUp16(Len(ms[i].data)))

\* the file_header_length of the containers drawn
RecordLength == 1024

\* the well-formed container of the members ms with the file headers fs:
\* the main header block, a record per member, and the payloads packed
\* after them, each padded with zeros to its stored length
ImageOf(ms, fs) ==
    Container(
        << Extent(Zero32,
                  ImageHeader([HeaderOf(<<256, 0>>, Len(ms))
                                  EXCEPT !.file_header_length = W(RecordLength)]),
                  W(IMG_HEADER_HEADER_SIZE - HeaderSize)) >>
        \o [i \in 1..Len(ms) |->
               Extent(W(FILE_HEADERS_START + (i - 1) * RecordLength),
                      ImageRecord(fs[i]), W(RecordLength - RecordSize))]
        \o [i \in 1..Len(ms) |->
               Extent(fs[i].offset, ms[i].data,
                      WSub(fs[i].stored_length, fs[i].original_length))],
        TRUE, TRUE)

WellFormedImages ==
    {ImageOf(ms, MemberHeaders(ms, 1, FILE_HEADERS_START + Len(ms) * RecordLength)) :
        ms \in SeqsUpTo(Members, MaxEntries)}

\* files that are no container, or not all of one: an unreadable file, a
\* file with another magic (of 1024 bytes, and of 8), a file that ends
\* inside the main header, and a container that announces a record it does
\* not hold
BrokenImages ==
    {NoFile,
     Container(<< Extent(Zero32, Str("ANDROID!"), W(IMG_HEADER_HEADER_SIZE - 8)) >>,
               TRUE, TRUE),
     Container(<< Extent(Zero32, Str("ANDROID!"), Zero32) >>, TRUE, TRUE),
     Container(<< Extent(Zero32, Fmt.imagewty, W(8)) >>, TRUE, TRUE),
     Container(<< Extent(Zero32,
                         ImageHeader([HeaderOf(<<256, 0>>, 1)
                                         EXCEPT !.file_header_length = W(RecordLength)]),
                         W(IMG_HEADER_HEADER_SIZE - HeaderSize)) >>, TRUE, TRUE)}

RoundTripInit ==
    /\ pc = "idle"
    /\ arg = Commands(<<"extract", "repack">>)
    /\ image \in WellFormedImages \cup BrokenImages
    /\ env \in {[EnvIdle EXCEPT !.dumpdir = d] : d \in {"none", "dir", "denied"}}
    /\ dir = [n \in Names |-> NoFile]
    /\ cfg = NoFile
    /\ out = NoFile
    /\ hdr = None
    /\ files = <<>>
    /\ scan = ScanIdle
    /\ ret = NotReturned

RoundTripNext ==
    \/ ExtractImage
    \/ MakeDumpDir
    \/ WriteManifest
    \/ ExtractFiles
    \/ VerifyExtracted
    \/ ExtractReturn
    \/ ScanEntry
    \/ FinishScan
    \/ RepackImage
    \/ LoadManifest
    \/ OpenDestination
    \/ WriteGlobalHeader
    \/ UpdateLayout
    \/ WriteFileHeaders
    \/ WritePayloads

SpecRoundTrip == RoundTripInit /\ [][RoundTripNext]_vars

\* the content of a container file, byte by byte
Bytes(c) == ReadAt(c, Zero32, ContainerSize(c)[1])

\* extract_image returned 0 and repack_image has then run on the dump
\* directory
RoundTripRan ==
    /\ pc = "idle"
    /\ Len(ret.log) = 2
    /\ ret.log[1] = <<"extract", 0>>

\* C2: extracting a well-formed container and repacking the unmodified dump
\* directory produces a container that is byte for byte the extracted one:
\* main header block, every record and every payload block.
C2_ContainerRoundTrip ==
    RoundTripRan =>
        /\ ret.log[2] = <<"repack", 0>>
        /\ Bytes(out) = Bytes(image)


---------------------------------------------------------------------------
(* Specification of the checksum scans of a dump directory that holds the  *)
(* vbmeta side-files.                                                      *)

\* what a vbmeta side-file may be: absent, a value that is not the checksum
\* of its (absent) sibling, the same in a file that cannot be opened for
\* reading, and a file shorter than 4 bytes that cannot be written
VbmetaFiles ==
    {NoFile, File(<<7, 0, 0, 0>>, TRUE, TRUE), File(<<7, 0, 0, 0>>, FALSE, TRUE),
     File(<<7>>, TRUE, FALSE)}

ExemptInit ==
    /\ pc = "idle"
    /\ \E vb \in VbmetaFiles, vs \in VbmetaFiles, vv \in VbmetaFiles,
          va \in {NoFile, File(<<1, 0, 0, 0>>, TRUE, TRUE)} :
           dir = [n \in Names |->
                     CASE n = N_Vvbmeta -> vb
                       [] n = N_Vvbmeta_system -> vs
                       [] n = N_Vvbmeta_vendor -> vv
                       [] n = N_Va -> va
                       [] OTHER -> NoFile]
    /\ scan = ScanIdle
    /\ arg = None
    /\ cfg = NoFile /\ image = None /\ out = NoFile /\ hdr = None
    /\ files = <<>> /\ ret = None /\ env = EnvIdle

ExemptNext == VerifyVfiles \/ UpdateVfiles \/ ScanEntry \/ FinishScan

SpecExempt == ExemptInit /\ [][ExemptNext]_vars

ExtractCalled == pc = "idle" /\ arg.cmds # <<>> /\ Head(arg.cmds) = "extract"

\* C12: when the first 8 bytes of the source are not "IMAGEWTY",
\* extract_image ends with a non-zero result and has created neither the
\* dump directory nor the manifest nor any output file.
C12_BadMagicCreatesNothing ==
    [][(ExtractCalled /\ Readable(image)
            /\ ReadAt(image, Zero32, 8) # Fmt.imagewty) =>
          /\ pc' = "idle"
          /\ ret'.op = "extract" /\ ret'.done /\ ret'.rc # 0
          /\ env' = env /\ cfg' = cfg /\ dir' = dir]_vars

\* extract_image has refused a file of 1024 bytes with another magic, and
\* there is no dump directory
C12_Witness ==
    /\ ret.log = << <<"extract", 1>> >>
    /\ ret.at = "magic"
    /\ Readable(image)
    /\ ContainerSize(image) = W(IMG_HEADER_HEADER_SIZE)
    /\ env.dumpdir = "none"
    /\ ~cfg.exists


\* the source can be opened, holds a whole main header, and its magic is
\* "IMAGEWTY"
MagicMatches ==
    /\ Readable(image)
    /\ read_image_header(image).ok
    /\ read_image_header(image).hdr.magic = Fmt.imagewty

\* C13: once the source has been opened and its magic has matched,
\* extract_image returns success: neither the read of the file headers nor
\* the creation of the dump directory nor the manifest write makes it fail.
C13_MagicSoleGate ==
    (MagicMatches /\ Len(ret.log) >= 1) => ret.log[1] = <<"extract", 0>>


---------------------------------------------------------------------------
(* Specification of extract_image alone, on containers some of whose       *)
(* entries cannot be extracted, into dump directories that may exist.      *)

\* members: a.fex with one of two payloads, its side-file, and a member
\* with an empty name, for which no output file can be created
ExtractMembers ==
    {[name |-> N_a, data |-> PayloadOfA, header_size |-> W(1024), pad |-> Zero32],
     [name |-> N_a, data |-> <<9>>, header_size |-> W(1024), pad |-> Zero32],
     [name |-> N_Va, data |-> LE32(SumLoop(PayloadOfA, 0, Zero32)),
      header_size |-> W(1024), pad |-> Zero32],
     [name |-> <<>>, data |-> <<5>>, header_size |-> W(1024), pad |-> Zero32]}

\* a container cut off before the payload written last
Truncated(c) == [c EXCEPT !.ext = SubSeq(@, 1, Len(@) - 1)]

ExtractImages ==
    LET whole == {ImageOf(ms, MemberHeaders(ms, 1,
                         FILE_HEADERS_START + Len(ms) * RecordLength)) :
                     ms \in SeqsUpTo(ExtractMembers, MaxEntries)}
    IN whole \cup {Truncated(c) : c \in {w \in whole : Len(w.ext) > 1}}
             \cup BrokenImages

\* the dump directory before extraction: none, one that cannot be made,
\* and an existing one, empty or holding a write-protected a.fex or a
\* writable Va.fex, with or without a write-protected image.cfg
ExtractInit ==
    /\ pc = "idle"
    /\ arg = Commands(<<"extract">>)
    /\ image \in ExtractImages
    /\ \/ /\ env \in {[EnvIdle EXCEPT !.dumpdir = d] : d \in {"none", "denied"}}
          /\ dir = [n \in Names |-> NoFile]
          /\ cfg = NoFile
       \/ /\ env = EnvIdle
          /\ \E a \in {NoFile, File(<<8, 8>>, TRUE, FALSE)},
                va \in {NoFile, File(<<8, 8, 8, 8, 8>>, TRUE, TRUE)} :
                dir = [n \in Names |-> IF n = N_a THEN a
                                       ELSE IF n = N_Va THEN va ELSE NoFile]
          /\ cfg \in {NoFile, File(<<Str("stale")>>, TRUE, FALSE)}
    /\ out = NoFile
    /\ hdr = None
    /\ files = <<>>
    /\ scan = ScanIdle
    /\ ret = NotReturned

ExtractNext ==
    \/ ExtractImage
    \/ MakeDumpDir
    \/ WriteManifest
    \/ ExtractFiles
    \/ VerifyExtracted
    \/ ScanEntry
    \/ FinishScan
    \/ ExtractReturn

SpecExtract == ExtractInit /\ [][ExtractNext]_vars

\* fopen(filepath, "wb") can create or truncate the file n
Creatable(n) == n \in Names /\ ~(dir[n].exists /\ ~dir[n].w)

\* the last entry that names n
LastNamed(n) ==
    files[CHOOSE i \in 1..Len(files) :
             /\ files[i].filename = n
             /\ \A j \in (i + 1)..Len(files) : files[j].filename # n]

\* the payload bytes the container holds for the entry fh
Held(fh) == ReadAt(image, fh.offset, fh.original_length[1])

C15_ExtractionOrder ==
    [][/\ cfg' # cfg => pc = "x_manifest" /\ env.dumpdir = "dir"
       /\ pc' = "x_manifest" => pc = "x_mkdir"
       /\ pc' = "x_files" => pc = "x_manifest"
       /\ dir' # dir => pc = "x_files"
       /\ pc' = "x_scan" => pc = "x_files"
       /\ (pc' = "scan" /\ pc # "scan") => pc = "x_scan" /\ ~scan'.update
       /\ pc' = "x_return" => pc = "scan"
       /\ pc = "x_return" => ret'.op = "extract" /\ ret'.done /\ ret'.rc = 0]_vars

\* extract_image has returned 0 after a scan that reported a mismatch, with
\* the manifest written into a directory it created
C15_Witness ==
    /\ ret.log = << <<"extract", 0>> >>
    /\ scan.report[N_Va] = "FAIL"
    /\ scan.modes = << FALSE >>
    /\ cfg.exists /\ cfg.w
    /\ dir[N_a].exists


---------------------------------------------------------------------------
(* Specification of repack_image on dump directories that lack what it     *)
(* needs: the manifest, a payload file, or a destination it can create.    *)

\* the manifests: none, one that cannot be opened, and manifests that list
\* a.fex, or a.fex and Va.fex
FatalManifests ==
    LET text(fs) == ConfigText([HeaderOf(<<256, 0>>, Len(fs))
                                   EXCEPT !.file_header_length = W(RecordLength)],
                               fs, W(Len(fs)))
        one == << EntryOf(<<256, 0>>, N_a, W(1024)) >>
        two == << EntryOf(<<256, 0>>, N_a, W(1024)),
                  EntryOf(<<256, 0>>, N_Va, W(1024)) >>
    IN {NoFile, File(text(one), FALSE, TRUE), File(text(one), TRUE, TRUE),
        File(text(two), TRUE, TRUE)}

\* the destination before the repack: none, and an older output of one
\* byte that can or cannot be written
FatalOuts ==
    {NoFile} \cup {Container(<< Extent(Zero32, <<1>>, Zero32) >>, TRUE, w) :
                      w \in BOOLEAN}

FatalInit ==
    /\ pc = "idle"
    /\ arg = Commands(<<"repack">>)
    /\ \E a \in {NoFile, File(PayloadOfA, FALSE, TRUE), File(PayloadOfA, TRUE, TRUE)},
          va \in {NoFile, File(<<0, 0, 0, 0>>, FALSE, TRUE),
                  File(LE32(SumLoop(PayloadOfA, 0, Zero32)), TRUE, TRUE)} :
          dir = [n \in Names |-> IF n = N_a THEN a
                                 ELSE IF n = N_Va THEN va ELSE NoFile]
    /\ cfg \in FatalManifests
    /\ out \in FatalOuts
    /\ image = None
    /\ hdr = None
    /\ files = <<>>
    /\ scan = ScanIdle
    /\ ret = NotReturned
    /\ env = EnvIdle

SpecFatal == FatalInit /\ [][RepackNext]_vars

\* repack_image has ended
RepackReturned == ret.op = "repack" /\ ret.done

\* an entry of the loaded manifest names a file that is missing or cannot
\* be read
PayloadMissing ==
    \E i \in 1..Len(files) :
        files[i].filename \notin Names \/ ~Readable(dir[files[i].filename])

\* C16: repack_image returns non-zero when the manifest cannot be loaded,
\* when the destination cannot be created, and when a payload file the
\* manifest names is missing or unreadable; when the manifest cannot be
\* loaded the destination is left as it was, absent or with its content.
C16_FatalConditions ==
    RepackReturned =>
        /\ (~Readable(cfg) \/ (out.exists /\ ~out.w) \/ PayloadMissing) => ret.rc # 0
        /\ ~Readable(cfg) => out \in FatalOuts

\* repack_image has returned non-zero for want of the manifest, leaving an
\* older writable output as it was
C16_Witness ==
    /\ RepackReturned
    /\ ret.rc # 0
    /\ ~Readable(cfg)
    /\ out = Container(<< Extent(Zero32, <<1>>, Zero32) >>, TRUE, TRUE)

\* repack_image has returned non-zero because a.fex cannot be read
C16_WitnessPayload ==
    /\ RepackReturned
    /\ ret.rc # 0
    /\ Readable(cfg)
    /\ ~(out.exists /\ ~out.w)
    /\ PayloadMissing


\* C17: no operation ends the process: extract_image comes back to its
\* caller with a result for every source, also for one that is shorter than
\* the main header or than the file headers it announces.  (A result with
\* at = "exit" stands for a call of exit(EXIT_FAILURE): the caller never
\* gets control back.)
C17_NoExit == ret.done => ret.at # "exit"


---------------------------------------------------------------------------
(* Specification of repack_image on the dump directory of a well-formed    *)
(* container after a.fex was edited.                                       *)

\* the members of the container that was extracted
GrowMembers ==
    << [name |-> N_a, data |-> PayloadOfA, header_size |-> Zero32, pad |-> Zero32],
       [name |-> N_Va, data |-> LE32(SumLoop(PayloadOfA, 0, Zero32)),
        header_size |-> Zero32, pad |-> Zero32] >>

\* the size of the container of the members ms
RECURSIVE TotalSize(_, _)
TotalSize(ms, i) ==
    IF i > Len(ms) THEN FILE_HEADERS_START + Len(ms) * RecordLength
    ELSE TotalSize(ms, i + 1) + RoundUp16(Len(ms[i].data))

\* the manifest extraction wrote for the container of the members ms: its
\* total_image_size is the size of that container
GrowManifest(ms) ==
    ConfigText([HeaderOf(<<256, 0>>, Len(ms))
                   EXCEPT !.file_header_length = W(RecordLength),
                          !.total_image_size = W(TotalSize(ms, 1))],
               MemberHeaders(ms, 1, FILE_HEADERS_START + Len(ms) * RecordLength),
               W(Len(ms)))

\* a.fex as extracted, grown to 33 bytes, and cut to one byte
EditedPayloads ==
    {PayloadOfA, PayloadOfA \o PayloadOfA, <<1>>}

GrowInit ==
    /\ pc = "idle"
    /\ arg = Commands(<<"repack">>)
    /\ \E k \in 1..Len(GrowMembers) :
          cfg = File(GrowManifest(SubSeq(GrowMembers, 1, k)), TRUE, TRUE)
    /\ \E a \in EditedPayloads :
          dir = [n \in Names |->
                    IF n = N_a THEN File(a, TRUE, TRUE)
                    ELSE IF n = N_Va THEN File(GrowMembers[2].data, TRUE, TRUE)
                    ELSE NoFile]
    /\ out \in FatalOuts
    /\ image = None
    /\ hdr = None
    /\ files = <<>>
    /\ scan = ScanIdle
    /\ ret = NotReturned
    /\ env = EnvIdle

SpecGrow == GrowInit /\ [][RepackNext]_vars

\* the total_image_size field of the main header that was written
WrittenTotal == FieldAt(out.ext[1].data, 24)

\* C18: in the output of a successful repack every entry lies inside the
\* container: offset + stored_length is at most the total_image_size
\* written in the main header and at most the length of the output file,
\* also when payload files grew or shrank since extraction.
C18_EntriesInsideTotal ==
    RepackSucceeded =>
        \A i \in 1..Len(files) :
            /\ WLeq(WAdd(WrittenOffset(i), WrittenStored(i)), WrittenTotal)
            /\ WLeq(WAdd(WrittenOffset(i), WrittenStored(i)), ContainerSize(out))

---------------------------------------------------------------------------
(* Specification of load_image_config on manifests whose number_of_files   *)
(* differs from the number of file blocks they hold.                       *)

\* a manifest in the format of write_image_config that declares n files and
\* holds the blocks of fs
CountedManifest(seed, fs, n) == ConfigText(HeaderOf(seed, n), fs, W(n))

\* files are the blocks of the manifest, hdr.num_files the declared count
CountInit ==
    /\ pc = "written"
    /\ \E seed \in CfgSeeds :
          \E fs \in SeqsUpTo({EntryOf(seed, N_a, Zero32),
                              EntryOf(seed, N_a, <<1024, 0>>),
                              EntryOf(seed, N_Va, <<1024, 0>>)}, MaxEntries) :
             \E n \in 0..CallocLimit :
                /\ hdr = HeaderOf(seed, n)
                /\ files = fs
                /\ cfg = File(CountedManifest(seed, fs, n), TRUE, TRUE)
    /\ dir = <<>>
    /\ image = None
    /\ out = NoFile
    /\ scan = ScanIdle
    /\ arg = None
    /\ ret = [op |-> "write", rc |-> 0]
    /\ env = EnvIdle

SpecCount == CountInit /\ [][LoadImageConfig]_vars

\* the declared count
DeclaredCount == hdr.num_files[1]

\* the manifest was loaded with memory for the declared count
CountLoaded == pc = "loaded" /\ ret.mem >= DeclaredCount

\* C19: a manifest declaring number_of_files = n loads as exactly n
\* entries: entry i is read from the i-th block while there is one, blocks
\* after the n-th are ignored, and the entries after the last block have
\* every field zero.
C19_DeclaredCountRules ==
    CountLoaded =>
        /\ ret.res.rc = 0
        /\ ret.res.hdr.num_files = hdr.num_files
        /\ Len(ret.res.files) = DeclaredCount
        /\ \A i \in 1..DeclaredCount :
              ret.res.files[i] =
                  IF i <= Len(files)
                  THEN [files[i] EXCEPT !.header_size = Zero32]
                  ELSE ZeroFileHeader

\* two files declared, one block present
C19_Witness ==
    /\ CountLoaded
    /\ DeclaredCount = 2
    /\ Len(files) = 1
    /\ Len(ret.res.files) = 2
    /\ ret.res.files[1].filename = files[1].filename
    /\ ret.res.files[2] = ZeroFileHeader

\* one file declared, two blocks present
C19_WitnessIgnored ==
    /\ CountLoaded
    /\ DeclaredCount = 1
    /\ Len(files) = 2
    /\ Len(ret.res.files) = 1

---------------------------------------------------------------------------
(* Extraction of a container that holds no file.                           *)

\* extract_image has read a main header with the magic and num_files = 0
EmptyContainer == hdr # None /\ hdr.num_files = Zero32

NoFilesLine == Str("number_of_files=0x00000000;")

\* the manifest has the line number_of_files=0x00000000; and no line that
\* opens a file block (file_N {)
EmptyManifest(text) ==
    /\ \E k \in 1..Len(text) : text[k] = NoFilesLine
    /\ \A k \in 1..Len(text) :
          ~(Take(text[k], 5) = Fmt.file /\ StrChr(text[k], Ascii("{")) # 0)
    /\ \A k \in 1..Len(text) : text[k] # Fmt.filelist

\* C20: extracting a container whose main header has num_files = 0 returns
\* 0 when the dump directory can be made, writes no payload file, and
\* leaves a manifest (where image.cfg can be written) that holds the line
\* number_of_files=0x00000000; and no file block.
C20_EmptyContainer ==
    /\ [](EmptyContainer /\ ret.done /\ env.dumpdir # "denied" =>
              /\ ret.op = "extract" /\ ret.rc = 0 /\ ret.at = "end"
              /\ files = <<>>
              /\ cfg.exists
              /\ cfg.w => /\ EmptyManifest(cfg.data)
                          /\ cfg.data = ConfigText(hdr, <<>>, Zero32))
    /\ [][EmptyContainer => dir' = dir]_vars

\* an empty container has been extracted into a directory made for it:
\* the manifest is there and no payload file is
C20_Witness ==
    /\ EmptyContainer
    /\ ret.done /\ ret.rc = 0
    /\ cfg.exists /\ cfg.w
    /\ EmptyManifest(cfg.data)
    /\ \A n \in Names : ~dir[n].exists

---------------------------------------------------------------------------
(* The payload blocks of a container written by repack_image.              *)

\* the blocks [a1, e1) and [a2, e2) share no byte
Apart(a1, e1, a2, e2) == WLeq(e1, a1) \/ WLeq(e2, a2) \/ WLeq(e1, a2) \/ WLeq(e2, a1)

\* the payload block of entry i: from its offset, stored_length bytes
BlockStart(i) == WrittenOffset(i)

BlockEnd(i) == WAdd(WrittenOffset(i), WrittenStored(i))

\* the bytes of the container at the payload of entry i
PackedPayload(i) == ReadAt(out, BlockStart(i), WrittenOriginal(i)[1])

\* the bytes of the container after the payload of entry i, up to the end
\* of its block
PackedPadding(i) ==
    ReadAt(out, WAdd(BlockStart(i), WrittenOriginal(i)),
           WSub(WrittenStored(i), WrittenOriginal(i))[1])

\* C21: in the container a successful repack wrote, the bytes of entry i
\* from offset to offset + original_length are the current content of its
\* payload file, the bytes from there to offset + stored_length are zero,
\* and the payload block shares no byte with the block of another entry,
\* with the main header or with a file-entry record.
C21_PayloadBlocks ==
    RepackSucceeded =>
        \A i \in 1..Len(files) :
            /\ PackedPayload(i) = dir[files[i].filename].data
            /\ PackedPadding(i) =
                   [k \in 1..(RoundUp16(SizeOf(i)) - SizeOf(i)) |-> 0]
            /\ \A j \in 1..Len(files) :
                  j # i => Apart(BlockStart(i), BlockEnd(i), BlockStart(j), BlockEnd(j))
            /\ \A k \in 1..(Len(files) + 1) :
                  Apart(BlockStart(i), BlockEnd(i), out.ext[k].at, ExtentEnd(out.ext[k]))

---------------------------------------------------------------------------
(* Specification of the order of the entries: extract_image followed by    *)
(* repack_image on small containers, and repack_image on manifests whose   *)
(* blocks carry other numbers than their positions.                        *)

\* the number printed after file_ for block i of n: the position, the
\* position counted from the end, or 7 for every block
BlockNumber(kind, i, n) ==
    CASE kind = "position" -> i
      [] kind = "reversed" -> n + 1 - i
      [] kind = "seven" -> 7

RECURSIVE NumberedBlocks(_, _, _)
NumberedBlocks(fs, kind, i) ==
    IF i > Len(fs) THEN <<>>
    ELSE FileBlock(BlockNumber(kind, i, Len(fs)), fs[i]) \o NumberedBlocks(fs, kind, i + 1)

\* a manifest in the format of write_image_config whose blocks are numbered
\* by kind
NumberedManifest(h, fs, kind) ==
    ConfigText(h, <<>>, W(Len(fs))) \o << <<>>, Fmt.filelist >>
    \o NumberedBlocks(fs, kind, 1)

\* file_header_length values of the manifests: 0x400 and 0xFFFFFC00
OrderRecordLengths == {<<1024, 0>>, <<64512, 65535>>}

OrderMembers ==
    {[name |-> N_a, data |-> PayloadOfA, header_size |-> Zero32, pad |-> Zero32],
     [name |-> N_Va, data |-> LE32(SumLoop(PayloadOfA, 0, Zero32)),
      header_size |-> Zero32, pad |-> Zero32]}

OrderInit ==
    /\ pc = "idle"
    /\ \/ /\ arg = Commands(<<"extract", "repack">>)
          /\ \E ms \in SeqsUpTo(OrderMembers, MaxEntries) :
                image = ImageOf(ms, MemberHeaders(ms, 1,
                                   FILE_HEADERS_START + Len(ms) * RecordLength))
          /\ env \in {[EnvIdle EXCEPT !.dumpdir = d] : d \in {"none", "dir"}}
          /\ dir = [n \in Names |-> NoFile]
          /\ cfg = NoFile
       \/ /\ arg = Commands(<<"repack">>)
          /\ image = None
          /\ env = EnvIdle
          /\ \E va \in {LE32(SumLoop(PayloadOfA, 0, Zero32)), <<0, 0, 0, 0>>} :
                dir = [n \in Names |->
                          IF n = N_a THEN File(PayloadOfA, TRUE, TRUE)
                          ELSE IF n = N_Va THEN File(va, TRUE, TRUE)
                          ELSE NoFile]
          /\ \E fhl \in OrderRecordLengths,
                fs \in SeqsUpTo({EntryOf(<<256, 0>>, name, Zero32) :
                                    name \in {N_a, N_Va}}, MaxEntries),
                kind \in {"position", "reversed", "seven"} :
                cfg = File(NumberedManifest(
                              [HeaderOf(<<256, 0>>, Len(fs))
                                  EXCEPT !.file_header_length = fhl],
                              fs, kind), TRUE, TRUE)
    /\ out = NoFile
    /\ hdr = None
    /\ files = <<>>
    /\ scan = ScanIdle
    /\ ret = NotReturned

SpecOrder == OrderInit /\ [][RoundTripNext]_vars

FilenameKey == Str("filename=\"")

\* a line filename="..."; of a manifest
IsNameLine(l) == Take(l, Len(FilenameKey)) = FilenameKey

\* a line that opens a file block
IsBlockStart(l) == Take(l, 5) = Fmt.file /\ StrChr(l, Ascii("{")) # 0

\* the file names of the blocks of a manifest, in order of appearance
BlockNames(text) ==
    [i \in 1..Len(SelectSeq(text, IsNameLine)) |->
        SubSeq(SelectSeq(text, IsNameLine)[i], Len(FilenameKey) + 1,
               Len(SelectSeq(text, IsNameLine)[i]) - 2)]

\* the file name in the i-th file-entry record of a container whose
\* records are length bytes long
RecordName(c, i, length) ==
    CStr(ReadAt(c, WAdd(W(FILE_HEADERS_START + 36), Times(i - 1, length)), 256))

\* C22: the i-th record of a container is block file_i of the manifest
\* extract_image writes (counting from 1); the i-th block of a manifest,
\* whatever its number, is the entry repack_image writes into the i-th
\* record slot, at 0x400 + (i - 1) * file_header_length; and the payload
\* blocks follow one another in that order.
C22_OrderPreserved ==
    /\ pc = "x_files" =>
          /\ SelectSeq(cfg.data, IsBlockStart) =
                 [i \in 1..Len(files) |-> Fmt.file \o Dec(i) \o Fmt.open]
          /\ BlockNames(cfg.data) =
                 [i \in 1..Len(files) |-> RecordName(image, i, W(RecordLength))]
    /\ RepackSucceeded =>
          /\ Len(BlockNames(cfg.data)) = Len(files)
          /\ \A i \in 1..Len(files) :
                /\ out.ext[i + 1].at =
                      WAdd(W(FILE_HEADERS_START), Times(i - 1, hdr.file_header_length))
                /\ CStr(SubSeq(WrittenRecord(i), 37, 292)) = BlockNames(cfg.data)[i]
                /\ i > 1 => BlockStart(i) = BlockEnd(i - 1)

---------------------------------------------------------------------------
(* Specification of load_image_config on manifests with one more line in   *)
(* a file block.                                                           *)

\* the lines a block may hold besides those write_image_config prints
ExtraLines ==
    {UIntLine(Str("header_size"), <<85, 0>>),
     UIntLine(Fmt.number_of_files, <<1, 0>>),
     UIntLine(Fmt.number_of_files, Zero32),
     UIntLine(Str("base_ram"), <<85, 0>>),
     StrLine(Fmt.magic, Str("ANDROID!")),
     UIntLine(Str("pad1"), <<85, 0>>)}

\* the blocks of fs from block i on, with the line extra at the end of
\* block at
RECURSIVE ScopedBlocks(_, _, _, _)
ScopedBlocks(fs, i, at, extra) ==
    IF i > Len(fs) THEN <<>>
    ELSE (IF i = at
          THEN SubSeq(FileBlock(i, fs[i]), 1, Len(FileBlockKeys) + 1)
               \o << extra, Fmt.close >>
          ELSE FileBlock(i, fs[i]))
         \o ScopedBlocks(fs, i + 1, at, extra)

ScopedManifest(h, fs, at, extra) ==
    ConfigText(h, <<>>, W(Len(fs))) \o << <<>>, Fmt.filelist >>
    \o ScopedBlocks(fs, 1, at, extra)

\* hdr and files are what the global section and the blocks declare
\* without the extra line
ScopeInit ==
    /\ pc = "written"
    /\ \E seed \in CfgSeeds :
          \E fs \in SeqsUpTo({EntryOf(seed, N_a, Zero32),
                              EntryOf(seed, N_Va, Zero32)}, MaxEntries) \ {<<>>} :
             \E at \in 1..Len(fs), extra \in ExtraLines :
                /\ hdr = HeaderOf(seed, Len(fs))
                /\ files = fs
                /\ cfg = File(ScopedManifest(HeaderOf(seed, Len(fs)), fs, at, extra),
                              TRUE, TRUE)
    /\ dir = <<>>
    /\ image = None
    /\ out = NoFile
    /\ scan = ScanIdle
    /\ arg = None
    /\ ret = [op |-> "write", rc |-> 0]
    /\ env = EnvIdle

SpecScope == ScopeInit /\ [][LoadImageConfig]_vars

\* C23: a key=value line inside a file block changes no field of the
\* global header and not the file count: the header load_image_config
\* returns is the one the global section declares, and there are as many
\* entries as the global section declares.
C23_BlockScope ==
    (pc = "loaded" /\ ret.mem >= Len(files)) =>
        /\ ret.res.rc = 0
        /\ ret.res.hdr = hdr
        /\ Len(ret.res.files) = Len(files)

---------------------------------------------------------------------------
(* Completeness of repack_image with respect to its fatal conditions.      *)

\* the manifest can be loaded
ManifestLoadable == Readable(cfg) /\ load_image_config(cfg, env.mem).rc = 0

\* every payload file the manifest names can be read
PayloadsReadable ==
    \A i \in 1..Len(Declared) :
        Declared[i].filename \in Names /\ Readable(dir[Declared[i].filename])

\* C24: when the manifest can be loaded, the destination can be created
\* and every payload file the manifest names can be read, repack_image
\* returns 0, also for a manifest that declares no file.
C24_RepackComplete ==
    (RepackReturned /\ ManifestLoadable /\ ~(out.exists /\ ~out.w)
        /\ PayloadsReadable) => ret.rc = 0

---------------------------------------------------------------------------
(* The 32-bit fields of the layout.                                        *)

\* the exact size of the header region: 1024 + num_files * file_header_length
ExactHeaderRegion == WAdd(W(IMG_HEADER_HEADER_SIZE), Times(Len(files), hdr.file_header_length))

\* C25: the stored_length and offset values a successful repack wrote are
\* the exact ones: offset i is 1024 + num_files * file_header_length plus
\* the rounded sizes of the entries before it, without reduction modulo
\* 2^32, stored_length is the size rounded up to 16 and no less than
\* original_length, and the offsets do not decrease; a layout that does not
\* fit in 32 bits is never written by a successful repack.
C25_NoWrap ==
    RepackSucceeded =>
        \A i \in 1..Len(files) :
            /\ WrittenOffset(i) = WAdd(ExactHeaderRegion, W(SizesBefore(i)))
            /\ WrittenStored(i) = W(RoundUp16(SizeOf(i)))
            /\ WLeq(WrittenOriginal(i), WrittenStored(i))
            /\ i > 1 => WLeq(WrittenOffset(i - 1), WrittenOffset(i))

---------------------------------------------------------------------------
(* The record buffer of repack_image.                                      *)

\* C26: when repack_image comes to serialize file-entry records, the
\* buffer of file_header_length bytes holds all fields of a record, the
\* last of which ends at 0x138: a manifest with a smaller
\* file_header_length, or with none, was rejected before.
C26_RecordsInsideBuffer ==
    (pc \in {"r_records", "undefined"} /\ files # <<>>) =>
        WLeq(W(RecordSize), hdr.file_header_length)

---------------------------------------------------------------------------
(* The content of the files extract_image leaves.                          *)

\* C27: every file the extraction loop leaves for an entry holds exactly
\* the bytes of the container from the entry's offset to offset +
\* original_length; when the container ends before that, no file of other
\* content is left for the entry.
C27_ExactPayloads ==
    [][pc = "x_files" =>
          \A n \in Names :
              (Creatable(n) /\ \E i \in 1..Len(files) : files[i].filename = n) =>
                  /\ dir'[n].exists
                  /\ dir'[n].data = Held(LastNamed(n))
                  /\ Len(dir'[n].data) = LastNamed(n).original_length[1]]_vars

---------------------------------------------------------------------------
(* Specification of repack_image on dump directories whose side-files are  *)
(* stale, short, long, write-protected or side-files of side-files.        *)

\* a.fex (checksum 1), readable or not
SidePayloads == {File(<<1>>, TRUE, TRUE), File(<<1>>, FALSE, TRUE)}

\* Va.fex: right, stale, shorter than 4 bytes, right with a fifth byte, and
\* stale and write-protected
SideVfiles ==
    {File(<<1, 0, 0, 0>>, TRUE, TRUE), File(<<0, 0, 0, 0>>, TRUE, TRUE),
     File(<<1, 0>>, TRUE, TRUE), File(<<1, 0, 0, 0, 9>>, TRUE, TRUE),
     File(<<0, 0, 0, 0>>, TRUE, FALSE)}

\* VVa.fex: none, or the checksum of a Va.fex that holds 1
SideVVfiles == {NoFile, File(<<1, 0, 0, 0>>, TRUE, TRUE)}

\* the entry lists of the manifests
SideLists ==
    LET e(name) == EntryOf(<<256, 0>>, name, Zero32)
    IN {<<e(N_Va)>>, <<e(N_a), e(N_Va)>>, <<e(N_Va), e(N_VVa)>>, <<e(N_VVa), e(N_a)>>}

SideInit ==
    /\ pc = "idle"
    /\ arg = Commands(<<"repack">>)
    /\ \E a \in SidePayloads, va \in SideVfiles, vva \in SideVVfiles :
          dir = [n \in Names |-> CASE n = N_a -> a
                                   [] n = N_Va -> va
                                   [] n = N_VVa -> vva
                                   [] OTHER -> NoFile]
    /\ \/ cfg = NoFile
       \/ \E fs \in SideLists :
             cfg = File(ConfigText([HeaderOf(<<256, 0>>, Len(fs))
                                       EXCEPT !.file_header_length = W(RecordLength)],
                                   fs, W(Len(fs))), TRUE, TRUE)
    /\ out = NoFile
    /\ image = None
    /\ hdr = None
    /\ files = <<>>
    /\ scan = ScanIdle
    /\ ret = NotReturned
    /\ env = EnvIdle

SpecSide == SideInit /\ [][RepackNext]_vars

\* C28: in the container of a successful repack the payload of every
\* packed side-file V<name> that is not exempt and whose sibling <name> is
\* in the dump directory is the 4-byte little-endian checksum of the
\* sibling's content at packing time.
C28_PackedChecksums ==
    RepackSucceeded =>
        \A i \in 1..Len(files) :
            (Checked(files[i].filename) /\ dir[Tail(files[i].filename)].exists) =>
                PackedPayload(i) =
                    LE32(U32(ExactWordSum(dir[Tail(files[i].filename)].data)))

---------------------------------------------------------------------------
(* What repack_image changes in the dump directory.                        *)

\* the side-file n stores a value that differs from what compute_checksum
\* returns for its sibling
Differs(d, n) ==
    /\ Checked(n)
    /\ HasStored(d[n])
    /\ Stored(d[n]) # compute_checksum(d, Tail(n))

C29_WitnessFailed ==
    /\ RepackReturned /\ ret.rc # 0
    /\ scan.report[N_Va] = "FIX"

---------------------------------------------------------------------------
(* The order of the steps of repack_image.                                 *)

\* C30: in repack_image the repair scan is the only step that changes the
\* dump directory and it ends before the manifest is loaded, so it has run
\* also when the load fails; the destination is opened only after the
\* manifest was loaded; the layout loop opens every payload file before a
\* file-entry record or a payload byte is written, and a missing one ends
\* the repack there; all records are written before the first payload.
C30_RepackOrder ==
    [][/\ dir' # dir => pc = "scan" /\ scan.update
       /\ pc' = "r_load" => pc = "scan" /\ scan'.loop = "closed"
       /\ hdr' # hdr => pc = "r_load"
       /\ pc' = "r_open" => pc = "r_load" /\ hdr' # None
       /\ out' # out => pc \in {"r_open", "r_header", "r_records", "r_payload"}
       /\ pc' = "r_header" => pc = "r_open" /\ out'.ext = <<>>
       /\ pc' = "r_layout" => pc = "r_header" /\ Len(out'.ext) = 1
       /\ (pc = "r_layout" /\ PayloadMissing) =>
             /\ ret'.done /\ ret'.rc = 1
             /\ out' = out
       /\ pc' = "r_records" =>
             /\ pc = "r_layout"
             /\ ~PayloadMissing
             /\ Len(out.ext) = 1
       /\ pc' = "r_payload" => pc = "r_records" /\ Len(out'.ext) = 1 + Len(files)
       /\ pc = "r_payload" => Len(out.ext) = 1 + Len(files)]_vars

\* repack_image has failed for want of the manifest after the scan rewrote
\* Va.fex
C30_Witness ==
    /\ RepackReturned /\ ret.rc # 0 /\ ret.at = "load"
    /\ ~cfg.exists
    /\ scan.report[N_Va] = "FIX"
    /\ dir[N_Va].data = LE32(compute_checksum(dir, N_a))
    /\ ~out.exists

\* repack_image has failed in the layout loop for a payload that cannot be
\* read, having written the main header block only
C30_WitnessLayout ==
    /\ RepackReturned /\ ret.rc # 0 /\ ret.at = "layout"
    /\ PayloadMissing
    /\ Len(out.ext) = 1

===========================================================================
